---------------------------- MODULE Spec2Model ----------------------------
(***************************************************************************)
(* A model of edhttp::uri (src/edhttp/uri.cpp): the set_uri() scanner, the *)
(* path canonicalizer, the serializer get_uri(), the query string map and  *)
(* the percent-encoding codec.                                             *)
(*                                                                         *)
(* A std::string is a sequence of characters; a character is a string of   *)
(* length one, except the zero byte which is written NUL.                  *)
(***************************************************************************)
EXTENDS Integers, Sequences, FiniteSets, TLC

VARIABLES u,    \* the uri object the operations act on
          u2,   \* a second uri object (used where two objects are compared)
          op    \* the last call made: its name, arguments, result and output

vars == <<u, u2, op>>

-----------------------------------------------------------------------------
(* Characters and C strings                                                *)

NUL == "NUL"

\* the printable ASCII characters, codes 32 to 126, in code order
Printable ==
    << " ", "!", "DQUOTE", "#", "$", "%", "&", "'", "(", ")", "*", "+", ",", "-", ".", "/",
       "0", "1", "2", "3", "4", "5", "6", "7", "8", "9", ":", ";", "<", "=", ">", "?",
       "@", "A", "B", "C", "D", "E", "F", "G", "H", "I", "J", "K", "L", "M", "N", "O",
       "P", "Q", "R", "S", "T", "U", "V", "W", "X", "Y", "Z", "[", "BSLASH", "]", "^", "_",
       "BQUOTE", "a", "b", "c", "d", "e", "f", "g", "h", "i", "j", "k", "l", "m", "n", "o",
       "p", "q", "r", "s", "t", "u", "v", "w", "x", "y", "z", "{", "|", "}", "~" >>

Chars == {Printable[i] : i \in 1..Len(Printable)} \cup {NUL}

\* the byte value of a character
OrdTable ==
    [c \in Chars |-> IF c = NUL THEN 0
                     ELSE 31 + (CHOOSE i \in 1..Len(Printable) : Printable[i] = c)]

Ord(c) == OrdTable[c]

\* the character of a byte value (the model only meets 0 and 32..126)
Chr(n) == IF n = 0 THEN NUL ELSE Printable[n - 31]

\* what a char const * loop sees of a std::string: the text before the
\* first zero byte
RECURSIVE c_str(_, _)
c_str(s, i) == IF i > Len(s) \/ s[i] = NUL THEN SubSeq(s, 1, i - 1) ELSE c_str(s, i + 1)

CStr(s) == c_str(s, 1)

\* *p for a pointer at position i of a C string (the terminator reads as NUL)
At(s, i) == IF i >= 1 /\ i <= Len(s) THEN s[i] ELSE NUL

\* std::string(s, i, n) with positions counted from 1
Sub(s, i, n) == SubSeq(s, i, i + n - 1)

InStr(s, c) == \E i \in 1..Len(s) : s[i] = c

IsUpper(c) == Ord(c) >= 65 /\ Ord(c) <= 90
IsLower(c) == Ord(c) >= 97 /\ Ord(c) <= 122
IsDigit(c) == Ord(c) >= 48 /\ Ord(c) <= 57

\* std::string operator <: byte-wise lexicographic order
RECURSIVE StrLess(_, _)
StrLess(a, b) ==
    IF b = <<>> THEN FALSE
    ELSE IF a = <<>> THEN TRUE
    ELSE IF Ord(Head(a)) # Ord(Head(b)) THEN Ord(Head(a)) < Ord(Head(b))
    ELSE StrLess(Tail(a), Tail(b))

\* std::to_string(int) for n >= 0
RECURSIVE to_string(_)
to_string(n) ==
    IF n < 10 THEN <<Chr(48 + n)>> ELSE to_string(n \div 10) \o <<Chr(48 + (n % 10))>>

\* snapdev::join_strings(list, sep)
RECURSIVE join_strings(_, _)
join_strings(list, sep) ==
    IF list = <<>> THEN <<>>
    ELSE IF Len(list) = 1 THEN list[1]
    ELSE list[1] \o sep \o join_strings(Tail(list), sep)

-----------------------------------------------------------------------------
(* Percent-encoding codec: uri::urlencode, uri::urldecode                  *)

HexDigits == <<"0", "1", "2", "3", "4", "5", "6", "7", "8", "9", "A", "B", "C", "D", "E", "F">>

\* snapdev::int_to_hex(c, true, 2): two uppercase hexadecimal digits
int_to_hex(n) == <<HexDigits[(n \div 16) + 1], HexDigits[(n % 16) + 1]>>

\* the loop of urlencode stops at the first zero byte of the input
RECURSIVE urlencode(_, _)
urlencode(in, accepted) ==
    IF in = <<>> \/ Head(in) = NUL THEN <<>>
    ELSE LET c == Head(in) IN
         (IF \/ IsUpper(c) \/ IsLower(c) \/ IsDigit(c)
             \/ c = "." \/ c = "-" \/ c = "_"
             \/ InStr(accepted, c)
          THEN <<c>>
          ELSE <<"%">> \o int_to_hex(Ord(c)))
         \o urlencode(Tail(in), accepted)

\* the value of a hexadecimal digit, -1 when c is none
HexValue(c) ==
    IF IsDigit(c) THEN Ord(c) - 48
    ELSE IF Ord(c) >= 65 /\ Ord(c) <= 70 THEN Ord(c) - 55
    ELSE IF Ord(c) >= 97 /\ Ord(c) <= 102 THEN Ord(c) - 87
    ELSE -1

\* the characters urldecode copies as they are when relax is false
StrictPlain(c) ==
    \/ IsUpper(c) \/ IsLower(c) \/ IsDigit(c)
    \/ c \in {".", "-", "/", "_", "~", "!", "@", ",", ";", ":", "(", ")"}

\* urldecode from position i of the C string in, with out the text decoded
\* so far; the result is [ok |-> TRUE, out |-> text] or, when invalid_uri
\* is thrown, [ok |-> FALSE, out |-> <<>>]
Thrown == [ok |-> FALSE, out |-> <<>>]

RECURSIVE urldecode_from(_, _, _, _)
urldecode_from(in, i, out, relax) ==
    IF i > Len(in) THEN [ok |-> TRUE, out |-> out]
    ELSE IF in[i] = "+" THEN urldecode_from(in, i + 1, out \o <<" ">>, relax)
    ELSE IF in[i] = "%" THEN
        LET h0 == HexValue(At(in, i + 1))
            h1 == HexValue(At(in, i + 2))
        IN  IF h0 = -1 THEN
                IF ~relax THEN Thrown
                ELSE urldecode_from(in, i + 1, out \o <<"%">>, relax)
            ELSE IF h1 = -1 THEN
                IF ~relax THEN Thrown
                ELSE urldecode_from(in, i + 1, out \o <<Chr(h0 * 16)>>, relax)
            ELSE urldecode_from(in, i + 3, out \o <<Chr(h0 * 16 + h1)>>, relax)
    ELSE IF relax \/ StrictPlain(in[i]) THEN
        urldecode_from(in, i + 1, out \o <<in[i]>>, relax)
    ELSE Thrown

urldecode(in, relax) == urldecode_from(CStr(in), 1, <<>>, relax)

-----------------------------------------------------------------------------
(* Text used by the scanner                                                *)

Empty == <<>>
Dot == <<".">>
DotDot == <<".", ".">>
Slash == <<"/">>
Star == <<"*">>

S_http == <<"h", "t", "t", "p">>
S_https == <<"h", "t", "t", "p", "s">>
S_ftp == <<"f", "t", "p">>
S_ssh == <<"s", "s", "h">>
S_telnet == <<"t", "e", "l", "n", "e", "t">>
S_smtp == <<"s", "m", "t", "p">>
S_gopher == <<"g", "o", "p", "h", "e", "r">>
S_time == <<"t", "i", "m", "e">>

\* an error message: its text and the part of the input it quotes
Msg(text, arg) == [text |-> text, arg |-> arg]
NoMsg == Msg("", <<>>)

\* the first position >= i of s that holds a character of stops, Len(s) + 1
\* when there is none (the terminator)
RECURSIVE FindFrom(_, _, _)
FindFrom(s, i, stops) ==
    IF i > Len(s) \/ s[i] \in stops THEN i ELSE FindFrom(s, i + 1, stops)

\* the pieces of s between separators sep, empty pieces included
RECURSIVE split_from(_, _, _)
split_from(s, i, sep) ==
    LET j == FindFrom(s, i, {sep})
    IN  IF j > Len(s) THEN <<SubSeq(s, i, Len(s))>>
        ELSE <<SubSeq(s, i, j - 1)>> \o split_from(s, j + 1, sep)

Split(s, sep) == split_from(s, 1, sep)

\* advgetopt::split_string(str, list, {sep}): the non-empty pieces
SelectNonEmpty(list) == SelectSeq(list, LAMBDA x : x # <<>>)
split_string(s, sep) == SelectNonEmpty(Split(s, sep))

-----------------------------------------------------------------------------
(* uri_options_t: std::map<std::string, std::string>, held as the sequence *)
(* of its <<key, value>> pairs in iteration order                          *)

\* a find that never finds the key
MapFindNone(m, k) == 0

\* m.find(k): the position of key k in the map, 0 for end()
MapFind(m, k) ==
    IF \E i \in 1..Len(m) : m[i][1] = k
    THEN CHOOSE i \in 1..Len(m) : m[i][1] = k
    ELSE 0

\* where std::map puts a new key: before the first key that is not less
MapLowerBound(m, k) ==
    IF \E i \in 1..Len(m) : ~StrLess(m[i][1], k)
    THEN CHOOSE i \in 1..Len(m) :
            /\ ~StrLess(m[i][1], k)
            /\ \A j \in 1..(i - 1) : StrLess(m[j][1], k)
    ELSE Len(m) + 1

\* m[k] = v
MapSet(m, k, v) ==
    LET f == MapFind(m, k)
        at == MapLowerBound(m, k)
    IN  IF f # 0 THEN [m EXCEPT ![f] = <<k, v>>]
        ELSE SubSeq(m, 1, at - 1) \o << <<k, v>> >> \o SubSeq(m, at, Len(m))

\* m.erase(m.find(k)) when the key is there
MapErase(m, k) ==
    LET f == MapFind(m, k)
    IN  IF f = 0 THEN m ELSE SubSeq(m, 1, f - 1) \o SubSeq(m, f + 1, Len(m))

MapKeys(m) == {m[i][1] : i \in 1..Len(m)}

-----------------------------------------------------------------------------
(* uri::scheme_to_port                                                     *)

\* getservbyname(scheme, "tcp") then "udp": the services database of the
\* host, here with the one entry the tests rely on (time 37); -1 = not found
getservbyname(scheme) == IF scheme = S_time THEN 37 ELSE -1

scheme_to_port(scheme) ==
    IF scheme = S_http THEN 80
    ELSE IF scheme = S_https THEN 443
    ELSE IF scheme = S_ftp THEN 21
    ELSE IF scheme = S_ssh THEN 22
    ELSE IF scheme = S_telnet THEN 23
    ELSE IF scheme = S_smtp THEN 25
    ELSE IF scheme = S_gopher THEN 70
    ELSE getservbyname(scheme)

-----------------------------------------------------------------------------
(* uri::clean_path                                                         *)

MsgDotDot == Msg("found \"..\" at the beginning of your path.", <<>>)

\* path_segments.erase(begin + from, begin + to) with 0-based positions
Erase(segs, from, to) == SubSeq(segs, 1, from) \o SubSeq(segs, to + 1, Len(segs))

\* the for loop of clean_path at index i (0-based, as in the code); each
\* branch ends with --i and the loop's ++i, so the index stays where it is
RECURSIVE clean_path_loop(_, _, _)
clean_path_loop(segs, i, max_path) ==
    IF i >= max_path THEN [ok |-> TRUE, path |-> segs, msg |-> NoMsg]
    ELSE IF segs[i + 1] = Dot THEN
        clean_path_loop(Erase(segs, i, i + 1), i, max_path - 1)
    ELSE IF segs[i + 1] = DotDot THEN
        IF i = 0 \/ max_path < 2
        THEN [ok |-> FALSE, path |-> segs, msg |-> MsgDotDot]
        ELSE clean_path_loop(Erase(segs, i - 1, i + 1), i, max_path - 2)
    ELSE clean_path_loop(segs, i + 1, max_path)

\* a clean_path that removes nothing and accepts every path
clean_path_accepting(path_segments) ==
    [ok |-> TRUE, path |-> path_segments, msg |-> NoMsg]

clean_path(path_segments) == clean_path_loop(path_segments, 0, Len(path_segments))

-----------------------------------------------------------------------------
(* uri::process_domain, with the libtld and libaddr calls it rests on      *)

\* the top-level domains the tld() table of this model knows
KnownTLDs == { <<".", "c", "o", "m">>, <<".", "o", "r", "g">> }

IsSuffix(t, s) == Len(t) <= Len(s) /\ SubSeq(s, Len(s) - Len(t) + 1, Len(s)) = t

\* ::tld(fd, &info): info.f_offset (0-based, where the TLD starts) when the
\* name ends with a known TLD after a non-empty label, -1 otherwise
tld_offset(fd) ==
    IF \E t \in KnownTLDs :
            /\ IsSuffix(t, fd) /\ Len(fd) > Len(t)
            /\ fd[Len(fd) - Len(t)] # "."
            /\ \A i \in 1..Len(fd) :
                  IsLower(fd[i]) \/ IsUpper(fd[i]) \/ IsDigit(fd[i]) \/ fd[i] \in {".", "-"}
    THEN Len(fd) - Len(CHOOSE t \in KnownTLDs : IsSuffix(t, fd))
    ELSE -1

\* the while loop that walks compute_domain_name back to the label's start
RECURSIVE label_start(_, _)
label_start(fd, p) ==
    IF p <= 0 THEN 0
    ELSE IF fd[p] = "." THEN p
    ELSE label_start(fd, p - 1)

\* the for loop over the sub-domains: an empty one ends the call with false,
\* one that cannot be decoded ends it with the exception of urldecode
RECURSIVE decode_sub_domains(_, _)
decode_sub_domains(names, i) ==
    IF i > Len(names) THEN [status |-> "true", names |-> names]
    ELSE IF names[i] = <<>> THEN [status |-> "false", names |-> names]
    ELSE LET d == urldecode(names[i], FALSE)
         IN  IF ~d.ok THEN [status |-> "throw", names |-> names]
             ELSE decode_sub_domains([names EXCEPT ![i] = d.out], i + 1)

\* the output parameters when process_domain returns false at once
NoDomain == [status |-> "false", sub_domain_names |-> <<>>, domain_name |-> <<>>, tld |-> <<>>]

\* the sub-domains of the text before the domain label
sub_domains_of(all_sub_domains) ==
    IF all_sub_domains = <<>>
    THEN [status |-> "true", names |-> <<>>]
    ELSE decode_sub_domains(Split(all_sub_domains, "."), 1)

\* the output parameters given what urldecode made of the TLD (t) and of the
\* domain label (d), and the sub-domains (subs)
domain_parts(t, d, subs) ==
    IF ~t.ok THEN [NoDomain EXCEPT !.status = "throw"]
    ELSE IF ~d.ok THEN [NoDomain EXCEPT !.status = "throw", !.tld = t.out]
    ELSE [status |-> subs.status, sub_domain_names |-> subs.names,
          domain_name |-> d.out, tld |-> t.out]

\* off is info.f_offset, start the position of the '.' before the label
domain_at(fd, off, start) ==
    domain_parts(urldecode(SubSeq(fd, off + 1, Len(fd)), FALSE),
                 urldecode(SubSeq(fd, start + 1, off), FALSE),
                 sub_domains_of(SubSeq(fd, 1, IF start > 0 THEN start - 1 ELSE 0)))

\* the result holds the three output parameters as the call leaves them
process_domain(full_domain_name) ==
    IF tld_offset(full_domain_name) = -1 THEN NoDomain
    ELSE domain_at(full_domain_name, tld_offset(full_domain_name),
                   label_start(full_domain_name, tld_offset(full_domain_name)))

\* the addresses addr::addr_parser::parse() recognises without a lookup
\* the text before the '-' of a range
Before4(text) == SubSeq(text, 1, 7)

KnownIPs == { <<"1", ".", "2", ".", "3", ".", "4">> }

\* a numeric address that is not written in its canonical form, and that form
ShortIP == <<"1", "2", "7", ".", "1">>
LongIP == <<"1", "2", "7", ".", "0", ".", "0", ".", "1">>

\* a range of addresses
RangeIP == <<"1", ".", "2", ".", "3", ".", "4", "-", "1", ".", "2", ".", "3", ".", "9">>

\* addr_parser::parse(full_domain_name) with lookups and ports disallowed:
\* the list of ranges found, each with its flags and the text of its address
\* (get_from().to_ipv4or6_string())
addr_parse(text) ==
    IF text \in KnownIPs
    THEN << [has_to |-> FALSE, is_range |-> FALSE, has_from |-> TRUE, from |-> text] >>
    ELSE IF text = ShortIP
    THEN << [has_to |-> FALSE, is_range |-> FALSE, has_from |-> TRUE, from |-> LongIP] >>
    ELSE IF text = RangeIP
    THEN << [has_to |-> TRUE, is_range |-> TRUE, has_from |-> TRUE, from |-> Before4(text)] >>
    ELSE <<>>

-----------------------------------------------------------------------------
(* uri::set_uri, the scan: every phase works on positions (counted from 1) *)
(* of s, the C string of the argument                                      *)

\* the for loop over the authority: colon1, colon2 and at are positions,
\* 0 for nullptr; err is the message of the return false taken, if any
AuthorityColon(st, i) ==
    IF st.colon1 = 0 THEN
        IF st.at = 0 THEN [st EXCEPT !.colon1 = i]
        ELSE IF st.colon2 # 0 THEN
            [st EXCEPT !.err = "more than one ':' in the domain name segment (after the '@') [1]."]
        ELSE [st EXCEPT !.colon2 = i]
    ELSE
        IF st.at # 0 THEN
            IF st.colon2 # 0 THEN
                [st EXCEPT !.err = "more than one ':' in the domain name segment (after the '@') [2]."]
            ELSE [st EXCEPT !.colon2 = i]
        ELSE [st EXCEPT !.err = "more than one ':' in the login info segment (before the '@')."]

\* an '@' that replaces the one found before it
AuthorityAtLast(st, i) == [st EXCEPT !.at = i]

AuthorityAt(st, i) ==
    IF st.at # 0 THEN [st EXCEPT !.err = "more than one '@' character found."]
    ELSE [st EXCEPT !.at = i]

RECURSIVE authority_loop(_, _, _)
authority_loop(s, i, st) ==
    IF i > Len(s) \/ s[i] = "/" THEN [st EXCEPT !.end = i]
    ELSE LET next == IF s[i] = ":" THEN AuthorityColon(st, i)
                     ELSE IF s[i] = "@" THEN AuthorityAt(st, i)
                     ELSE st
         IN  IF next.err # "" THEN next ELSE authority_loop(s, i + 1, next)

\* port * 10 + d in an int of 32 bits (two's complement), d a digit value:
\* computed on the two halves of 16 bits of port
MulAdd32(port, d) ==
    LET lo == (port % 65536) * 10 + d
        hi == (port \div 65536) * 10 + (lo \div 65536)
    IN  (((hi + 32768) % 65536) - 32768) * 65536 + (lo % 65536)

\* a loop over the digits of the port that tests the range once, after the
\* last digit
RECURSIVE port_loop_late_check(_, _, _, _)
port_loop_late_check(s, p, e, port) ==
    IF p >= e THEN
        IF port > 65535
        THEN [ok |-> FALSE, port |-> port, msg |-> Msg("port must be between 0 and 65536.", <<>>)]
        ELSE [ok |-> TRUE, port |-> port, msg |-> NoMsg]
    ELSE IF ~IsDigit(s[p]) THEN
        [ok |-> FALSE, port |-> port,
         msg |-> Msg("port must be a valid decimal number ('...' unexpected).", SubSeq(s, p, e - 1))]
    ELSE port_loop_late_check(s, p + 1, e, MulAdd32(port, Ord(s[p]) - 48))

\* the for loop over the digits of the port, from position p to before e
RECURSIVE port_loop(_, _, _, _)
port_loop(s, p, e, port) ==
    IF p >= e THEN [ok |-> TRUE, port |-> port, msg |-> NoMsg]
    ELSE IF ~IsDigit(s[p]) THEN
        [ok |-> FALSE, port |-> port,
         msg |-> Msg("port must be a valid decimal number ('...' unexpected).", SubSeq(s, p, e - 1))]
    ELSE IF MulAdd32(port, Ord(s[p]) - 48) > 65535 THEN
        [ok |-> FALSE, port |-> port, msg |-> Msg("port must be between 0 and 65536.", <<>>)]
    ELSE port_loop(s, p + 1, e, MulAdd32(port, Ord(s[p]) - 48))

\* the local variables of set_uri and how far it went:
\*   status "true"      still scanning, or the call returns true
\*   status "false"     return false, msg being the text of the error
\*   "throw"            urldecode threw before any field was assigned
\*   "throw_username"   urldecode(username) threw, after f_original and f_scheme
\*   "throw_password"   urldecode(password) threw, after f_username as well
\* msg is the text assigned to f_last_error_message (NoMsg: not assigned),
\* s the C string of the argument and pos the position of u in it
ScanResult ==
    [status |-> "true", msg |-> NoMsg, original |-> <<>>, s |-> <<>>, pos |-> 1,
     scheme |-> <<>>, username |-> <<>>, password |-> <<>>, port |-> -1,
     domain |-> <<>>, top_level_domain |-> <<>>, sub_domains |-> <<>>,
     path |-> <<>>, hash_bang_path |-> <<>>, query_strings |-> <<>>, anchor |-> <<>>]

ReturnFalse(r, m) == [r EXCEPT !.status = "false", !.msg = m]
Throw(r) == [r EXCEPT !.status = "throw"]

\* a SchemePhase that takes an empty scheme as well
SchemePhaseAnyLength(str) ==
    LET colon == FindFrom(CStr(str), 1, {":"})
        r == [ScanResult EXCEPT !.original = str, !.s = CStr(str),
                                !.scheme = SubSeq(CStr(str), 1, colon - 1),
                                !.port = scheme_to_port(SubSeq(CStr(str), 1, colon - 1)),
                                !.pos = colon + 3]
    IN  IF \/ colon > Len(r.s)
           \/ At(r.s, colon + 1) # "/" \/ At(r.s, colon + 2) # "/"
        THEN ReturnFalse(r, Msg("scheme not followed by \"://\".", <<>>))
        ELSE r

\* the scheme, which must be followed by "://"
SchemePhase(str) ==
    LET colon == FindFrom(CStr(str), 1, {":"})
        r == [ScanResult EXCEPT !.original = str, !.s = CStr(str),
                                !.scheme = SubSeq(CStr(str), 1, colon - 1),
                                !.port = scheme_to_port(SubSeq(CStr(str), 1, colon - 1)),
                                !.pos = colon + 3]
    IN  IF \/ colon - 1 < 1 \/ colon > Len(r.s)
           \/ At(r.s, colon + 1) # "/" \/ At(r.s, colon + 2) # "/"
        THEN ReturnFalse(r, Msg("scheme not followed by \"://\".", <<>>))
        ELSE r

\* an AuthorityIP that takes the first address found, range or not
AuthorityFirstIP(r, full_domain_name, ip) ==
    IF Len(ip) < 1 THEN
        ReturnFalse(r, Msg("could not parse \"...\" as a domain name or an IP address.",
                           full_domain_name))
    ELSE [r EXCEPT !.domain = ip[1].from]

\* the domain is not a known name: it may be an IP address (ip is what
\* addr_parser::parse returned)
AuthorityIP(r, full_domain_name, ip) ==
    IF Len(ip) # 1 THEN
        ReturnFalse(r, Msg("could not parse \"...\" as a domain name or an IP address.",
                           full_domain_name))
    ELSE IF ip[1].has_to \/ ip[1].is_range \/ ~ip[1].has_from THEN
        ReturnFalse(r, Msg("it looks like \"...\" is a range of IP addresses, which is not supported in a URI.",
                           full_domain_name))
    ELSE [r EXCEPT !.domain = ip[1].from]

\* pd is what process_domain made of the domain name
AuthorityNames(r, full_domain_name, pd, accept_ip) ==
    IF pd.status = "throw" THEN Throw(r)
    ELSE IF pd.status = "true" THEN
        [r EXCEPT !.sub_domains = pd.sub_domain_names, !.domain = pd.domain_name,
                  !.top_level_domain = pd.tld]
    ELSE IF ~accept_ip THEN
        ReturnFalse(r, Msg("could not verify domain name \"...\".", full_domain_name))
    ELSE AuthorityIP([r EXCEPT !.sub_domains = pd.sub_domain_names, !.domain = pd.domain_name,
                               !.top_level_domain = pd.tld],
                     full_domain_name, addr_parse(full_domain_name))

\* AuthorityDomain without the test of the user name against the password
AuthorityDomainAnyLogin(r, full_domain_name, ports, accept_ip) ==
    IF ~ports.ok THEN ReturnFalse(r, ports.msg)
    ELSE IF full_domain_name = <<>> THEN ReturnFalse(r, Msg("a domain name is required.", <<>>))
    ELSE AuthorityNames([r EXCEPT !.port = ports.port], full_domain_name,
                        process_domain(full_domain_name), accept_ip)

\* ports is what the loop over the port made of it
AuthorityDomain(r, full_domain_name, ports, accept_ip) ==
    IF ~ports.ok THEN ReturnFalse(r, ports.msg)
    ELSE IF full_domain_name = <<>> THEN ReturnFalse(r, Msg("a domain name is required.", <<>>))
    ELSE IF (r.username = <<>>) # (r.password = <<>>) THEN
        ReturnFalse(r, Msg("username and password must both be defined (or define neither).", <<>>))
    ELSE AuthorityNames([r EXCEPT !.port = ports.port], full_domain_name,
                        process_domain(full_domain_name), accept_ip)

\* scan is what the loop over the authority found
AuthorityParts(r, scan, accept_ip) ==
    LET s == r.s
        start == r.pos
        e == scan.end
        \* without an at (@) colon1 indicates a port
        swap == scan.at = 0 /\ scan.colon1 # 0
        colon1 == IF swap THEN 0 ELSE scan.colon1
        colon2 == IF swap THEN scan.colon1 ELSE scan.colon2
        at == scan.at
        s1 == IF colon1 # 0 THEN colon1 + 1 ELSE start
        s2 == IF at # 0 THEN at + 1 ELSE s1
    IN  IF scan.err # "" THEN ReturnFalse(r, Msg(scan.err, <<>>))
        ELSE IF colon2 # 0 /\ colon2 + 1 = e THEN
            ReturnFalse(r, Msg("port cannot be an empty string.", <<>>))
        ELSE AuthorityDomain(
                [r EXCEPT !.username = IF colon1 # 0 THEN SubSeq(s, start, colon1 - 1) ELSE <<>>,
                          !.password = IF at # 0 THEN SubSeq(s, s1, at - 1) ELSE <<>>,
                          !.pos = e],
                IF colon2 # 0 THEN SubSeq(s, s2, colon2 - 1) ELSE SubSeq(s, s2, e - 1),
                IF colon2 # 0 THEN port_loop(s, colon2 + 1, e, 0)
                ELSE [ok |-> TRUE, port |-> r.port, msg |-> NoMsg],
                accept_ip)

\* the authority: skipped when a path follows "://" at once and accept_path
AuthorityPhase(r, accept_path, accept_ip) ==
    IF r.status # "true" THEN r
    ELSE IF At(r.s, r.pos) = "/" /\ accept_path THEN r
    ELSE AuthorityParts(r, authority_loop(r.s, r.pos, [colon1 |-> 0, colon2 |-> 0, at |-> 0,
                                                       err |-> "", end |-> 0]),
                        accept_ip)

\* urldecode() applied to each segment in turn: ok is FALSE when one throws
RECURSIVE decode_all(_)
decode_all(list) ==
    IF list = <<>> THEN [ok |-> TRUE, out |-> <<>>]
    ELSE LET d == urldecode(Head(list), FALSE)
             rest == decode_all(Tail(list))
         IN  IF ~d.ok \/ ~rest.ok THEN Thrown
             ELSE [ok |-> TRUE, out |-> <<d.out>> \o rest.out]

\* decoded is what urldecode made of the pieces of the path, which ends
\* before position e
PathSegments(r, e, decoded) ==
    IF ~decoded.ok THEN Throw(r)
    ELSE [r EXCEPT !.path = SelectSeq(decoded.out, LAMBDA seg : seg # Dot), !.pos = e]

PathEnd(r, e) ==
    PathSegments(r, e, decode_all(split_string(SubSeq(r.s, r.pos + 1, e - 1), "/")))

\* the path (pos holds the '/' after the authority, or is the end): the
\* non-empty pieces between slashes up to '?' or '#', decoded, without those
\* that decode to "."
PathPhase(r) ==
    IF r.status # "true" \/ r.pos > Len(r.s) THEN r
    ELSE PathEnd(r, FindFrom(r.s, r.pos + 1, {"?", "#"}))

\* one parameter of the query string, which ends at position i: name and
\* value are what urldecode made of its two sides, next is the position
\* after the '&' that follow it
RECURSIVE query_loop(_, _, _, _), QueryParameter(_, _, _, _)
QueryParameter(r, name, value, next) ==
    IF ~name.ok THEN Throw(r)
    ELSE IF MapFind(r.query_strings, name.out) # 0 THEN
        ReturnFalse(r, Msg("query string \"...\" found more than once.", name.out))
    ELSE IF ~value.ok THEN Throw(r)
    ELSE IF At(r.s, next) \in {NUL, "#"} THEN
        [r EXCEPT !.query_strings = MapSet(r.query_strings, name.out, value.out), !.pos = next]
    ELSE query_loop([r EXCEPT !.query_strings = MapSet(r.query_strings, name.out, value.out)],
                    next, 0, next)

\* the for loop over the query string: from is s, e the position of the
\* first '=' of the parameter (0 for nullptr), i is u
query_loop(r, from, e, i) ==
    IF At(r.s, i) \in {NUL, "&", "#"} THEN
        LET e1 == IF e = 0 THEN i ELSE e
        IN  QueryParameter(r,
                IF from = e1 THEN [ok |-> TRUE, out |-> Star]
                ELSE urldecode(SubSeq(r.s, from, e1 - 1), FALSE),
                urldecode(IF e1 # i THEN SubSeq(r.s, e1 + 1, i - 1) ELSE <<>>, FALSE),
                FindFrom(r.s, i, Chars \ {"&"}))
    ELSE IF e = 0 /\ r.s[i] = "=" THEN query_loop(r, from, i, i + 1)
    ELSE query_loop(r, from, e, i + 1)

\* the query string (pos holds '?' if there is one)
QueryPhase(r) ==
    IF r.status # "true" \/ At(r.s, r.pos) # "?" THEN r
    ELSE query_loop(r, FindFrom(r.s, r.pos + 1, Chars \ {"&"}), 0,
                    FindFrom(r.s, r.pos + 1, Chars \ {"&"}))

\* segments is what urldecode made of the pieces of the hash bang path
HashBangSegments(r, segments) ==
    IF ~segments.ok THEN Throw(r) ELSE [r EXCEPT !.hash_bang_path = segments.out]

\* an anchor phase that also keeps the text after '#' as the anchor when it
\* starts with '!'
AnchorTextKept(r, p) ==
    IF ~p.ok THEN Throw(r)
    ELSE IF p.out # <<>> /\ p.out[1] = "!" THEN
        HashBangSegments([r EXCEPT !.anchor = p.out],
                         decode_all(split_string(CStr(Tail(p.out)), "/")))
    ELSE [r EXCEPT !.anchor = p.out]

\* p is what urldecode made of the text after '#'
AnchorText(r, p) ==
    IF ~p.ok THEN Throw(r)
    ELSE IF p.out # <<>> /\ p.out[1] = "!" THEN
        HashBangSegments(r, decode_all(split_string(CStr(Tail(p.out)), "/")))
    ELSE [r EXCEPT !.anchor = p.out]

\* the anchor (pos holds '#' if there is one)
AnchorPhase(r) ==
    IF r.status # "true" \/ At(r.s, r.pos) # "#" THEN r
    ELSE AnchorText(r, urldecode(SubSeq(r.s, r.pos + 1, Len(r.s)), FALSE))

\* cleaned and hb are what clean_path made of the path and of the hash bang
\* path; the second failing only leaves its message
CleanedPaths(r, cleaned, hb) ==
    IF ~cleaned.ok THEN ReturnFalse(r, cleaned.msg)
    ELSE [r EXCEPT !.path = cleaned.path,
                   !.hash_bang_path = IF hb.ok THEN hb.path ELSE <<>>,
                   !.msg = hb.msg]

CleanPhase(r) ==
    IF r.status # "true" THEN r
    ELSE CleanedPaths(r, clean_path(r.path), clean_path(r.hash_bang_path))

\* user and pass are what urldecode made of the username and the password
DecodedLogin(r, user, pass) ==
    IF ~user.ok THEN [r EXCEPT !.status = "throw_username"]
    ELSE IF ~pass.ok THEN [r EXCEPT !.status = "throw_password", !.username = user.out]
    ELSE [r EXCEPT !.username = user.out, !.password = pass.out]

\* the assignments to the fields, two of which call urldecode
CommitPhase(r) ==
    IF r.status # "true" THEN r
    ELSE DecodedLogin(r, urldecode(r.username, FALSE), urldecode(r.password, FALSE))

\* set_uri(str, accept_path, accept_ip) up to its last statement
Scan(str, accept_path, accept_ip) ==
    CommitPhase(CleanPhase(AnchorPhase(QueryPhase(PathPhase(
        AuthorityPhase(SchemePhase(str), accept_path, accept_ip))))))

-----------------------------------------------------------------------------
(* The uri object                                                          *)

\* a default-constructed uri (the member initializers of uri.h)
NewUri ==
    [original |-> <<>>, scheme |-> S_http, username |-> <<>>, password |-> <<>>,
     port |-> 80, domain |-> <<>>, top_level_domain |-> <<>>, sub_domains |-> <<>>,
     path |-> <<>>, hash_bang_path |-> <<>>, options |-> <<>>, query_strings |-> <<>>,
     anchor |-> <<>>, address_ranges |-> <<>>, last_error_message |-> NoMsg]

\* a set_uri that leaves the options as they are when it returns true
set_uri_keeping_options(o, r) ==
    IF r.status \in {"false", "throw"} THEN
        [o EXCEPT !.last_error_message = IF r.msg = NoMsg THEN @ ELSE r.msg]
    ELSE IF r.status = "throw_username" THEN
        [o EXCEPT !.original = r.original, !.scheme = r.scheme]
    ELSE IF r.status = "throw_password" THEN
        [o EXCEPT !.original = r.original, !.scheme = r.scheme, !.username = r.username]
    ELSE [o EXCEPT !.original = r.original, !.scheme = r.scheme, !.username = r.username,
                   !.password = r.password,
                   !.port = IF r.port # -1 THEN r.port ELSE o.port,
                   !.domain = r.domain,
                   !.top_level_domain = r.top_level_domain,
                   !.sub_domains = r.sub_domains,
                   !.path = r.path,
                   !.hash_bang_path = r.hash_bang_path,
                   !.address_ranges = <<>>,
                   !.query_strings = r.query_strings,
                   !.anchor = r.anchor]

\* the object after set_uri(str, accept_path, accept_ip) ended as r tells
set_uri(o, r) ==
    LET m == IF r.msg = NoMsg THEN o.last_error_message ELSE r.msg
        e == [o EXCEPT !.last_error_message = m]
        c1 == [e EXCEPT !.original = r.original, !.scheme = r.scheme]
        c2 == [c1 EXCEPT !.username = r.username]
    IN  IF r.status \in {"false", "throw"} THEN e
        ELSE IF r.status = "throw_username" THEN c1
        ELSE IF r.status = "throw_password" THEN c2
        ELSE [c2 EXCEPT !.password = r.password,
                        !.port = IF r.port # -1 THEN r.port ELSE o.port,
                        !.domain = r.domain,
                        !.top_level_domain = r.top_level_domain,
                        !.sub_domains = r.sub_domains,
                        !.path = r.path,
                        !.hash_bang_path = r.hash_bang_path,
                        !.options = <<>>,
                        !.address_ranges = <<>>,
                        !.query_strings = r.query_strings,
                        !.anchor = r.anchor]

\* what the caller of set_uri sees: true, false or an exception
Returned(r) == IF r.status \in {"true", "false"} THEN r.status ELSE "throw"

-----------------------------------------------------------------------------
(* The serializer: uri::full_domain, path, hash_bang_path, query_string,   *)
(* get_uri                                                                 *)

full_domain(o) ==
    LET full_domains == join_strings(o.sub_domains, Dot)
    IN  (IF full_domains # <<>> THEN full_domains \o Dot ELSE <<>>)
        \o o.domain \o o.top_level_domain

\* path(true) and hash_bang_path(true): the segments encoded, '/' between
RECURSIVE encoded_path(_)
encoded_path(segments) ==
    IF segments = <<>> THEN <<>>
    ELSE IF Len(segments) = 1 THEN urlencode(segments[1], <<"~">>)
    ELSE urlencode(segments[1], <<"~">>) \o Slash \o encoded_path(Tail(segments))

\* the loop of query_string over the map, with result the text so far
RECURSIVE query_string_loop(_, _)
query_string_loop(m, result) ==
    IF m = <<>> THEN result
    ELSE LET name_value == Head(m)
             sep == IF result # <<>> THEN <<"&">> ELSE <<>>
             value == IF name_value[2] # <<>>
                      THEN <<"=">> \o urlencode(name_value[2], <<",">>)
                      ELSE <<>>
         IN  query_string_loop(Tail(m), result \o sep \o urlencode(name_value[1], <<>>) \o value)

query_string(o) == query_string_loop(o.query_strings, <<>>)

\* a get_uri that writes the anchor and the hash bang path one after the other
get_uri_both_fragments(o, use_hash_bang, redact) ==
    LET login == IF o.username # <<>>
                 THEN urlencode(o.username, <<>>)
                      \o (IF o.password # <<>>
                          THEN <<":">> \o urlencode(IF redact = <<>> THEN o.password ELSE redact, <<>>)
                          ELSE <<>>)
                      \o <<"@">>
                 ELSE <<>>
        port == IF o.port # scheme_to_port(o.scheme)
                THEN <<":">> \o to_string(o.port)
                ELSE <<>>
        p == encoded_path(o.path)
        pth == IF Len(p) > 0 /\ p[1] = "/" THEN Tail(p) ELSE p
        q == query_string(o)
        qs == IF q # <<>> THEN <<"?">> \o q ELSE <<>>
        anchor == IF o.anchor # <<>> THEN <<"#">> \o urlencode(o.anchor, <<"!", "/", "~">>) ELSE <<>>
        hash_bang == IF use_hash_bang /\ o.hash_bang_path # <<>>
                     THEN <<"#", "!", "/">> \o encoded_path(o.hash_bang_path)
                     ELSE <<>>
    IN  [ok |-> TRUE,
         out |-> o.scheme \o <<":", "/", "/">> \o login \o urlencode(full_domain(o), <<>>)
                 \o port \o Slash \o pth \o qs \o anchor \o hash_bang]

\* get_uri(use_hash_bang, redact): [ok |-> TRUE, out |-> text], or ok FALSE
\* when exclusive_parameters is thrown
get_uri(o, use_hash_bang, redact) ==
    LET login == IF o.username # <<>>
                 THEN urlencode(o.username, <<>>)
                      \o (IF o.password # <<>>
                          THEN <<":">> \o urlencode(IF redact = <<>> THEN o.password ELSE redact, <<>>)
                          ELSE <<>>)
                      \o <<"@">>
                 ELSE <<>>
        port == IF o.port # scheme_to_port(o.scheme)
                THEN <<":">> \o to_string(o.port)
                ELSE <<>>
        p == encoded_path(o.path)
        pth == IF Len(p) > 0 /\ p[1] = "/" THEN Tail(p) ELSE p
        q == query_string(o)
        qs == IF q # <<>> THEN <<"?">> \o q ELSE <<>>
        anchor == IF o.anchor # <<>> THEN <<"#">> \o urlencode(o.anchor, <<"!", "/", "~">>) ELSE <<>>
        hash_bang == IF use_hash_bang /\ o.hash_bang_path # <<>>
                     THEN <<"#", "!", "/">> \o encoded_path(o.hash_bang_path)
                     ELSE <<>>
    IN  IF o.anchor # <<>> /\ use_hash_bang THEN Thrown
        ELSE [ok |-> TRUE,
              out |-> o.scheme \o <<":", "/", "/">> \o login \o urlencode(full_domain(o), <<>>)
                      \o port \o Slash \o pth \o qs \o anchor \o hash_bang]

-----------------------------------------------------------------------------
(* uri::set_path                                                           *)

\* the for loop of set_path at index i (0-based), the same steps as the loop
\* of clean_path; ok is FALSE when invalid_path is thrown
RECURSIVE set_path_loop(_, _, _)
set_path_loop(p, i, max_parts) ==
    IF i >= max_parts THEN [ok |-> TRUE, path |-> p]
    ELSE IF p[i + 1] = Dot THEN
        set_path_loop(Erase(p, i, i + 1), i, max_parts - 1)
    ELSE IF p[i + 1] = DotDot THEN
        IF i = 0 \/ max_parts < 2
        THEN [ok |-> FALSE, path |-> p]
        ELSE set_path_loop(Erase(p, i - 1, i + 1), i, max_parts - 2)
    ELSE set_path_loop(p, i + 1, max_parts)

\* the loop of set_path over the pieces of uri_path
split_path(uri_path) == set_path_loop(split_string(uri_path, "/"), 0, Len(split_string(uri_path, "/")))

\* [ok |-> TRUE, path |-> the new f_path], or ok FALSE when the call throws
set_path(o, uri_path) ==
    IF (uri_path = <<>> \/ uri_path[1] # "/") /\ o.path # <<>>
    THEN split_path(join_strings(o.path, Slash) \o Slash \o uri_path)
    ELSE split_path(uri_path)

-----------------------------------------------------------------------------
(* The texts the operations are called with.  A URI is described by its    *)
(* pieces: the scheme with what follows it, the authority, the path as the *)
(* list of the texts between its slashes (<<>>: no path at all), the query *)
(* string as the list of the texts between its '&' (<<>>: no '?'), and the *)
(* fragment with its '#'.                                                  *)

MaxSegs == 3        \* path segments of a generated URI
MaxParams == 3      \* query parameters of a generated URI
MaxSetPath == 2     \* segments of an argument of set_path
MaxPath == 2        \* segments f_path may hold for set_path to be called

\* the sequences over S of length 0..n
RECURSIVE SeqsUpTo(_, _)
SeqsUpTo(S, n) ==
    IF n = 0 THEN {<<>>}
    ELSE LET shorter == SeqsUpTo(S, n - 1)
         IN  shorter \cup {Append(q, x) : q \in {z \in shorter : Len(z) = n - 1}, x \in S}

\* "/" before each piece
RECURSIVE PathText(_)
PathText(segs) == IF segs = <<>> THEN <<>> ELSE Slash \o Head(segs) \o PathText(Tail(segs))

QueryText(params) == IF params = <<>> THEN <<>> ELSE <<"?">> \o join_strings(params, <<"&">>)

Text(d) == d.scheme \o d.auth \o PathText(d.segs) \o QueryText(d.params) \o d.frag

Uri(scheme, auth, segs, params, frag) ==
    [scheme |-> scheme, auth |-> auth, segs |-> segs, params |-> params, frag |-> frag,
     accept_path |-> FALSE, accept_ip |-> FALSE]

HttpScheme == S_http \o <<":", "/", "/">>
FooScheme == <<"f", "o", "o", ":", "/", "/">>
HCom == <<"h", ".", "c", "o", "m">>

SegA == <<"a">>
SegBadHex == <<"%", "z", "z">>

\* the URIs of the main specification: a sample of every phase's outcomes
MainAuths ==
    { <<"u", ":", "p", "@">> \o HCom \o <<":", "8", "1">>,
      <<"%", "z", "z", ":", "p", "@">> \o HCom,
      <<"u", ":", "%", "z", "z", "@">> \o HCom,
      <<"h", ".", "x">> }

MainQueries == { << <<"a">>, <<"a">> >>, << <<"b", "=", "1">>, <<"a">> >> }

MainUris ==
    {Uri(HttpScheme, a, <<SegA>>, <<>>, <<>>) : a \in MainAuths}
    \cup {Uri(FooScheme, HCom, <<SegA>>, <<>>, <<>>), Uri(S_http, HCom, <<>>, <<>>, <<>>)}
    \cup {Uri(HttpScheme, HCom, segs, <<>>, <<>>) : segs \in SeqsUpTo({SegA, DotDot}, MaxSegs)}
    \cup {Uri(HttpScheme, HCom, <<x>>, <<>>, <<>>) : x \in {SegBadHex, Dot, Empty}}
    \cup {Uri(HttpScheme, HCom, <<Empty>>, q, <<>>) : q \in MainQueries}
    \cup {Uri(HttpScheme, HCom, <<Empty>>, <<>>, <<"#", "x">>)}

\* the arguments of set_path: relative and absolute paths
SetPathArgs ==
    {lead \o join_strings(segs, Slash) :
        lead \in {<<>>, Slash}, segs \in SeqsUpTo({SegA, DotDot, Dot}, MaxSetPath)}

-----------------------------------------------------------------------------
(* The main specification: one uri object and the calls made on it         *)

Init ==
    /\ u = NewUri
    /\ u2 = NewUri
    /\ op = [name |-> "uri", ret |-> "none"]

\* u.set_uri(Text(d), d.accept_path, d.accept_ip)
SetUri ==
    \E d \in MainUris :
        LET r == Scan(Text(d), d.accept_path, d.accept_ip)
        IN  /\ u' = set_uri(u, r)
            /\ op' = [name |-> "set_uri", ret |-> Returned(r)]
            /\ UNCHANGED u2

\* u.set_path(uri_path)
SetPath ==
    \E uri_path \in SetPathArgs :
        LET r == set_path(u, uri_path)
        IN  /\ Len(u.path) < MaxPath
            /\ u' = IF r.ok THEN [u EXCEPT !.path = r.path] ELSE u
            /\ op' = [name |-> "set_path", ret |-> IF r.ok THEN "void" ELSE "throw"]
            /\ UNCHANGED u2

Next == SetUri \/ SetPath

Spec == Init /\ [][Next]_vars

-----------------------------------------------------------------------------
(* Claims about the main specification                                     *)

\* every field but last_error_message
Fields(o) == [o EXCEPT !.last_error_message = NoMsg]

\* C1: a set_uri call that does not return true leaves every field of the
\* object other than last_error_message with the value it had before the call
C1_FailureLeavesFields ==
    [][(op'.name = "set_uri" /\ op'.ret # "true") => Fields(u') = Fields(u)]_vars

\* C2: set_uri ends by returning true or false, never with an exception, and
\* a return of false comes with a non-empty last error message
C2_NeverThrows ==
    op.name = "set_uri" =>
        /\ op.ret \in {"true", "false"}
        /\ op.ret = "false" => u.last_error_message # NoMsg

\* C4: after any sequence of set_uri and set_path calls the path holds no
\* empty segment, no "." and no ".."
C4_PathCanonical ==
    \A i \in 1..Len(u.path) : u.path[i] \notin {Empty, Dot, DotDot}

-----------------------------------------------------------------------------
(* The codec specification: urlencode then urldecode of a byte string      *)

MaxBytes == 2       \* bytes of a string given to urlencode

CodecBytes == {"a", "~", " ", "+", "%", NUL}
CodecAccepted == { <<>>, <<"~">>, <<",">>, <<"+">> }

InitCodec ==
    /\ u = NewUri
    /\ u2 = NewUri
    /\ \E b \in SeqsUpTo(CodecBytes, MaxBytes), A \in CodecAccepted :
          op = [name |-> "bytes", b |-> b, accepted |-> A, encoded |-> <<>>,
                ok |-> TRUE, out |-> <<>>]

\* encoded = urlencode(b, accepted)
UrlEncode ==
    /\ op.name = "bytes"
    /\ op' = [op EXCEPT !.name = "urlencode", !.encoded = urlencode(op.b, op.accepted)]
    /\ UNCHANGED <<u, u2>>

\* out = urldecode(encoded, false)
UrlDecode ==
    /\ op.name = "urlencode"
    /\ op' = [op EXCEPT !.name = "urldecode",
                        !.ok = urldecode(op.encoded, FALSE).ok,
                        !.out = urldecode(op.encoded, FALSE).out]
    /\ UNCHANGED <<u, u2>>

NextCodec == UrlEncode \/ UrlDecode

SpecCodec == InitCodec /\ [][NextCodec]_vars

\* the bytes on which urldecode(in, false) throws when it meets them
StrictRejects(c) == c # NUL /\ c \notin {"+", "%"} /\ ~StrictPlain(c)

\* C10: urldecode(urlencode(b, A), false) returns b for every byte string b
\* that holds no byte strict decoding rejects and every allow-list A
C10_PercentRoundTrip ==
    (op.name = "urldecode" /\ \A i \in 1..Len(op.b) : ~StrictRejects(op.b[i]))
        => op.ok /\ op.out = op.b

-----------------------------------------------------------------------------
(* The pair specification: two uri objects, the first with a history of    *)
(* its own, that are then given the same set_uri call                      *)

FileScheme == <<"f", "i", "l", "e", ":", "/", "/">>
TimeScheme == S_time \o <<":", "/", "/">>

PairUris ==
    { Uri(HttpScheme, HCom, <<SegA>>, <<>>, <<>>),
      Uri(HttpScheme, <<"u", ":", "p", "@", "w", ".">> \o HCom \o <<":", "8", "1">>,
          <<SegA>>, << <<"b", "=", "1">> >>, <<"#", "x">>),
      Uri(FooScheme, HCom, <<SegA>>, <<>>, <<>>),
      Uri(FooScheme, HCom \o <<":", "8", "2">>, <<SegA>>, <<>>, <<>>),
      Uri(TimeScheme, HCom, <<Empty>>, <<>>, <<>>),
      Uri(HttpScheme, <<"h", ".", "x">>, <<SegA>>, <<>>, <<>>),
      Uri(HttpScheme, <<"%", "z", "z", ":", "p", "@">> \o HCom, <<SegA>>, <<>>, <<>>),
      [Uri(FileScheme, <<>>, <<SegA>>, <<>>, <<>>) EXCEPT !.accept_path = TRUE],
      [Uri(HttpScheme, <<"1", ".", "2", ".", "3", ".", "4">>, <<SegA>>, <<>>, <<>>)
          EXCEPT !.accept_ip = TRUE] }

\* u.set_uri(Text(d), d.accept_path, d.accept_ip)
SetUriFirst ==
    \E d \in PairUris :
        /\ u' = set_uri(u, Scan(Text(d), d.accept_path, d.accept_ip))
        /\ op' = [name |-> "set_uri", ret |-> Returned(Scan(Text(d), d.accept_path, d.accept_ip))]
        /\ UNCHANGED u2

\* the same call on u and on u2
SetUriBoth ==
    \E d \in PairUris :
        /\ u' = set_uri(u, Scan(Text(d), d.accept_path, d.accept_ip))
        /\ u2' = set_uri(u2, Scan(Text(d), d.accept_path, d.accept_ip))
        /\ op' = [name |-> "set_uri_both",
                  ret |-> Returned(Scan(Text(d), d.accept_path, d.accept_ip))]

NextPair == SetUriFirst \/ SetUriBoth

SpecPair == Init /\ [][NextPair]_vars

\* the wire-format fields and the original text
WireFields(o) ==
    [original |-> o.original, scheme |-> o.scheme, username |-> o.username,
     password |-> o.password, sub_domains |-> o.sub_domains, domain |-> o.domain,
     top_level_domain |-> o.top_level_domain, port |-> o.port, path |-> o.path,
     hash_bang_path |-> o.hash_bang_path, query_strings |-> o.query_strings,
     anchor |-> o.anchor]

\* C3: two objects in different prior states that both successfully parse the
\* same string with the same flags end with the same wire-format fields and
\* original text, the port included
C3_FieldsFromArguments ==
    (op.name = "set_uri_both" /\ op.ret = "true") => WireFields(u) = WireFields(u2)

-----------------------------------------------------------------------------
(* Parsing, writing and parsing again: one URI goes through set_uri on a    *)
(* default-constructed object, get_uri, set_uri on a second                 *)
(* default-constructed object with the same flags, and get_uri again        *)

\* the pieces of the generated paths and query strings
SegTokens == {SegA, DotDot, Dot, Empty, SegBadHex, <<"%", "0", "0">>}

ParamTokens ==
    { <<"a">>, <<"a", "=", "1">>, <<"b">>, <<"=", "1">>, <<"%", "2", "A">>,
      <<"%", "z", "z">>, <<"a", "=", "%", "z", "z">>, <<"%", "0", "0">> }

HX == <<"h", ".", "x">>

\* every path up to MaxSegs pieces, with and without a query string
PathUris ==
    {Uri(HttpScheme, a, segs, q, <<>>) :
        a \in {HCom, HX}, segs \in SeqsUpTo(SegTokens, MaxSegs),
        q \in {<<>>, << <<"a">>, <<"a">> >>}}

\* every query string up to MaxParams parameters
QueryUris ==
    {Uri(HttpScheme, a, segs, q, <<>>) :
        a \in {HCom, HX}, segs \in {<<Empty>>, <<SegBadHex>>},
        q \in SeqsUpTo(ParamTokens, MaxParams)}

\* authorities, anchors and flags
OtherUris ==
    {Uri(sc, a, <<SegA>>, <<>>, <<>>) :
        sc \in {HttpScheme, FooScheme},
        a \in { <<"u", ":", "p", "@", "w", ".">> \o HCom \o <<":", "8", "1">>,
                <<"%", "0", "0", ":", "p", "@">> \o HCom,
                HCom \o <<":", "8", "0">> }}
    \cup {Uri(HttpScheme, HCom, segs, <<>>, f) :
            segs \in {<<>>, <<SegA>>},
            f \in { <<"#", "x">>, <<"#">>, <<"#", "%", "0", "0">>, <<"#", "%", "z", "z">>,
                    <<"#", "!", "/", "a">>, <<"#", "!", "/", ".", ".">> }}
    \cup { Uri(TimeScheme, HCom, <<Empty>>, <<>>, <<>>),
           [Uri(FileScheme, <<>>, <<SegA>>, <<>>, <<>>) EXCEPT !.accept_path = TRUE],
           [Uri(HttpScheme, <<"1", ".", "2", ".", "3", ".", "4">>, <<SegA>>, <<>>, <<>>)
               EXCEPT !.accept_ip = TRUE] }

ParseUris == PathUris \cup QueryUris \cup OtherUris

InitParse ==
    /\ u = NewUri
    /\ u2 = NewUri
    /\ \E d \in ParseUris :
        op = [name |-> "uri", d |-> d, ret |-> "none", out |-> <<>>,
              ret2 |-> "none", out2 |-> <<>>]

\* u.set_uri(Text(d), d.accept_path, d.accept_ip)
Parse ==
    /\ op.name = "uri"
    /\ \E r \in {Scan(Text(op.d), op.d.accept_path, op.d.accept_ip)} :
        /\ u' = set_uri(u, r)
        /\ op' = [op EXCEPT !.name = "set_uri", !.ret = Returned(r)]
    /\ UNCHANGED u2

\* u.get_uri() after set_uri returned true
Serialize ==
    /\ op.name = "set_uri"
    /\ op.ret = "true"
    /\ \E g \in {get_uri(u, FALSE, <<>>)} :
        op' = [op EXCEPT !.name = "get_uri", !.out = IF g.ok THEN g.out ELSE <<"throw">>]
    /\ UNCHANGED <<u, u2>>

\* u2.set_uri(u.get_uri(), d.accept_path, d.accept_ip)
Reparse ==
    /\ op.name = "get_uri"
    /\ \E r \in {Scan(op.out, op.d.accept_path, op.d.accept_ip)} :
        /\ u2' = set_uri(u2, r)
        /\ op' = [op EXCEPT !.name = "set_uri_again", !.ret2 = Returned(r)]
    /\ UNCHANGED u

\* u2.get_uri() after the second set_uri returned true
Reserialize ==
    /\ op.name = "set_uri_again"
    /\ op.ret2 = "true"
    /\ \E g \in {get_uri(u2, FALSE, <<>>)} :
        op' = [op EXCEPT !.name = "get_uri_again",
                         !.out2 = IF g.ok THEN g.out ELSE <<"throw">>]
    /\ UNCHANGED <<u, u2>>

NextParse == Parse \/ Serialize \/ Reparse \/ Reserialize

SpecParse == InitParse /\ [][NextParse]_vars

\* the pieces of d's path without the empty ones and the "." ones
KeptSegs(d) == SelectSeq(d.segs, LAMBDA seg : seg # Empty /\ seg # Dot)

LeadingDotDot(d) == KeptSegs(d) # <<>> /\ KeptSegs(d)[1] = DotDot

\* every piece of d's path can be decoded, and d with the path "/" is accepted
RestValid(d) ==
    /\ decode_all(d.segs).ok
    /\ Scan(Text([d EXCEPT !.segs = <<Empty>>]), d.accept_path, d.accept_ip).status = "true"

\* C5: set_uri never returns true for a URI whose path, without its empty and
\* "." segments, starts with ".."; when the segments of the path can all be
\* decoded and the same URI with the path "/" is accepted, it returns false
\* with the message 'found ".." at the beginning of your path.'
C5_LeadingDotDotRejected ==
    (op.name = "set_uri" /\ LeadingDotDot(op.d)) =>
        /\ op.ret # "true"
        /\ RestValid(op.d) => (op.ret = "false" /\ u.last_error_message = MsgDotDot)

\* /./../a on a URI that is valid otherwise has been refused
C5_Witness ==
    /\ op.name = "set_uri"
    /\ op.d.segs = <<Dot, DotDot, SegA>>
    /\ RestValid(op.d)
    /\ op.ret = "false"

\* C5 as stated: every URI whose path starts with ".." once the empty and "."
\* segments are dropped makes set_uri return false with that message
C5_AlwaysThatMessage ==
    (op.name = "set_uri" /\ LeadingDotDot(op.d)) =>
        (op.ret = "false" /\ u.last_error_message = MsgDotDot)

\* the two sides of a parameter: before and after its first '='
ParamName(t) == SubSeq(t, 1, FindFrom(t, 1, {"="}) - 1)

ParamValue(t) == SubSeq(t, FindFrom(t, 1, {"="}) + 1, Len(t))

\* the name set_uri gives the parameter: "*" when there is none
DecodedName(t) ==
    IF ParamName(t) = <<>> THEN [ok |-> TRUE, out |-> Star] ELSE urldecode(ParamName(t), FALSE)

\* parameter j of d has the decoded name of an earlier parameter
Repeats(d, j) ==
    \E i \in 1..(j - 1) :
        /\ DecodedName(d.params[i]).ok
        /\ DecodedName(d.params[j]).ok
        /\ DecodedName(d.params[i]).out = DecodedName(d.params[j]).out

HasRepeat(d) == \E j \in 1..Len(d.params) : Repeats(d, j)

FirstRepeat(d) ==
    CHOOSE j \in 1..Len(d.params) : Repeats(d, j) /\ \A k \in 1..(j - 1) : ~Repeats(d, k)

\* the scheme, the authority and the path of d are scanned without an error,
\* and so are the names up to the first repeated one and the values before it
ReachesRepeat(d) ==
    /\ PathPhase(AuthorityPhase(SchemePhase(Text(d)), d.accept_path, d.accept_ip)).status = "true"
    /\ \A i \in 1..FirstRepeat(d) : DecodedName(d.params[i]).ok
    /\ \A i \in 1..(FirstRepeat(d) - 1) : urldecode(ParamValue(d.params[i]), FALSE).ok

RepeatMsg(d) ==
    Msg("query string \"...\" found more than once.", DecodedName(d.params[FirstRepeat(d)]).out)

\* C6: set_uri never returns true for a query string in which two parameters
\* have the same decoded name (a parameter without a name has the name "*");
\* when the text before the '?' is scanned without an error and so are the
\* parameters before the first repeated one, it returns false with the
\* message that names the repeated key
C6_DuplicateKeyRejected ==
    (op.name = "set_uri" /\ HasRepeat(op.d)) =>
        /\ op.ret # "true"
        /\ ReachesRepeat(op.d) => (op.ret = "false" /\ u.last_error_message = RepeatMsg(op.d))

\* a name-less parameter after one whose name decodes to "*", with another
\* parameter in between, has been refused
C6_Witness ==
    /\ op.name = "set_uri"
    /\ op.d.params = << <<"%", "2", "A">>, <<"b">>, <<"=", "1">> >>
    /\ ReachesRepeat(op.d)
    /\ op.ret = "false"
    /\ u.last_error_message = Msg("query string \"...\" found more than once.", Star)

\* C6 as stated: whenever two parameters have the same decoded name, set_uri
\* returns false with a message naming the key
C6_AlwaysNamesTheKey ==
    (op.name = "set_uri" /\ HasRepeat(op.d)) =>
        (op.ret = "false" /\ u.last_error_message = RepeatMsg(op.d))

\* C7: when set_uri returned true, set_uri with the same flags on the
\* get_uri() output returns true too, and the get_uri() output of the second
\* object is that of the first
C7_ReparseIdempotent ==
    /\ op.name \in {"set_uri_again", "get_uri_again"} => op.ret2 = "true"
    /\ op.name = "get_uri_again" => op.out2 = op.out

\* the characters urlencode copies as they are
Unreserved(c, accepted) ==
    \/ IsUpper(c) \/ IsLower(c) \/ IsDigit(c)
    \/ c \in {".", "-", "_"}
    \/ InStr(accepted, c)

\* t is written the way urlencode writes: the unreserved characters as they
\* are, every other byte as '%' and two uppercase hexadecimal digits
RECURSIVE CanonEncoded(_, _)
CanonEncoded(t, accepted) ==
    IF t = <<>> THEN TRUE
    ELSE IF Head(t) = "%" THEN
        /\ Len(t) >= 3
        /\ \E h0, h1 \in 0..15 :
            /\ t[2] = HexDigits[h0 + 1]
            /\ t[3] = HexDigits[h1 + 1]
            /\ h0 * 16 + h1 \in {0} \cup 32..126
            /\ ~Unreserved(Chr(h0 * 16 + h1), accepted)
        /\ CanonEncoded(SubSeq(t, 4, Len(t)), accepted)
    ELSE Unreserved(Head(t), accepted) /\ CanonEncoded(Tail(t), accepted)

\* a URI in canonical form: http://h.com, then "/" alone or "/"-separated
\* segments that are neither empty nor "." nor "..", then parameters with
\* names in ascending order and no empty value after '=', then an anchor that
\* is neither empty nor a hash bang, each of them written as urlencode writes
CanonicalForm(d) ==
    /\ d.scheme = HttpScheme
    /\ d.auth = HCom
    /\ d.segs # <<>>
    /\ \/ d.segs = <<Empty>>
       \/ \A i \in 1..Len(d.segs) :
            d.segs[i] \notin {Empty, Dot, DotDot} /\ CanonEncoded(d.segs[i], <<"~">>)
    /\ \A i \in 1..Len(d.params) :
        /\ ParamName(d.params[i]) # <<>>
        /\ CanonEncoded(ParamName(d.params[i]), <<>>)
        /\ InStr(d.params[i], "=") =>
            (ParamValue(d.params[i]) # <<>> /\ CanonEncoded(ParamValue(d.params[i]), <<",">>))
    /\ \A i, j \in 1..Len(d.params) :
        i < j => StrLess(DecodedName(d.params[i]).out, DecodedName(d.params[j]).out)
    /\ \/ d.frag = <<>>
       \/ /\ Len(d.frag) >= 2
          /\ d.frag[1] = "#"
          /\ d.frag[2] # "!"
          /\ CanonEncoded(Tail(d.frag), <<"!", "/", "~">>)

\* C8: get_uri() after set_uri accepted a URI in canonical form on a
\* default-constructed object returns that URI
C8_RoundTrip ==
    (op.name = "get_uri" /\ CanonicalForm(op.d)) => op.out = Text(op.d)

-----------------------------------------------------------------------------
(* uri::set_query_option and uri::set_query_string                         *)

\* set_query_option(name, value): nothing for an empty name, the option is
\* erased for an empty value and assigned otherwise
set_query_option(o, name, value) ==
    IF name = <<>> THEN o
    ELSE IF value = <<>> THEN [o EXCEPT !.query_strings = MapErase(@, name)]
    ELSE [o EXCEPT !.query_strings = MapSet(@, name, value)]

\* f_query_strings[name] = value, with name and value what urldecode made
\* of the two sides of a pair; an exception leaves the pairs set so far
RECURSIVE set_query_string_loop(_, _), QueryAssign(_, _, _, _)
QueryAssign(m, name, value, rest) ==
    IF ~name.ok \/ ~value.ok THEN [ok |-> FALSE, query_strings |-> m]
    ELSE set_query_string_loop(MapSet(m, name.out, value.out), rest)

\* the for loop of set_query_string over the pairs
set_query_string_loop(m, value_pairs) ==
    IF value_pairs = <<>> THEN [ok |-> TRUE, query_strings |-> m]
    ELSE LET name_value == Head(value_pairs)
             pos == FindFrom(name_value, 1, {"="})
         IN  IF pos > Len(name_value) THEN
                 QueryAssign(m, urldecode(name_value, FALSE), [ok |-> TRUE, out |-> <<>>],
                             Tail(value_pairs))
             ELSE IF pos = 1 THEN
                 QueryAssign(m, [ok |-> TRUE, out |-> Star],
                             urldecode(Tail(name_value), FALSE), Tail(value_pairs))
             ELSE
                 QueryAssign(m, urldecode(SubSeq(name_value, 1, pos - 1), FALSE),
                             urldecode(SubSeq(name_value, pos + 1, Len(name_value)), FALSE),
                             Tail(value_pairs))

\* set_query_string(uri_query_string): [ok |-> TRUE, query_strings |-> map],
\* ok FALSE when urldecode throws invalid_uri
set_query_string(o, uri_query_string) ==
    set_query_string_loop(o.query_strings, split_string(uri_query_string, "&"))

-----------------------------------------------------------------------------
(* Two objects whose query strings are built by set_uri, set_query_option   *)
(* and set_query_string, and written by query_string and get_uri           *)

PairA1 == <<"a", "=", "1">>
PairNul1 == <<"%", "0", "0", "=", "1">>

\* the URIs parsed: the same parameters in two orders, and a name with a
\* zero byte
ParsedQueries ==
    {Uri(HttpScheme, HCom, <<Empty>>, q, <<>>) :
        q \in { <<PairA1, <<"b">> >>, << <<"b">>, PairA1>>, <<PairNul1, PairA1>> }}

OptionNames == {Empty, <<"a">>, <<"b">>, <<NUL>>}
OptionValues == {Empty, <<"1">>}

QueryStrings ==
    { PairA1 \o <<"&", "b">>, <<"b", "&">> \o PairA1, PairNul1,
      PairA1 \o <<"&">> \o SegBadHex }

InitQuery ==
    /\ u = NewUri
    /\ u2 = NewUri
    /\ op = [name |-> "uri", ret |-> "none", out |-> <<>>, out2 |-> <<>>, uri |-> <<>>]

Called(name, ret) == [name |-> name, ret |-> ret, out |-> <<>>, out2 |-> <<>>, uri |-> <<>>]

\* set_uri(Text(d)) on u (w = 1) or on u2 (w = 2)
ParseQuery ==
    \E w \in {1, 2}, d \in ParsedQueries :
        \E r \in {Scan(Text(d), d.accept_path, d.accept_ip)} :
            /\ u' = IF w = 1 THEN set_uri(u, r) ELSE u
            /\ u2' = IF w = 2 THEN set_uri(u2, r) ELSE u2
            /\ op' = Called("set_uri", Returned(r))

\* set_query_option(name, value) on u or on u2
SetQueryOption ==
    \E w \in {1, 2}, name \in OptionNames, value \in OptionValues :
        /\ u' = IF w = 1 THEN set_query_option(u, name, value) ELSE u
        /\ u2' = IF w = 2 THEN set_query_option(u2, name, value) ELSE u2
        /\ op' = Called("set_query_option", "void")

\* set_query_string(text) on u or on u2
SetQueryString ==
    \E w \in {1, 2}, text \in QueryStrings :
        \E r \in {set_query_string(IF w = 1 THEN u ELSE u2, text)} :
            /\ u' = IF w = 1 THEN [u EXCEPT !.query_strings = r.query_strings] ELSE u
            /\ u2' = IF w = 2 THEN [u2 EXCEPT !.query_strings = r.query_strings] ELSE u2
            /\ op' = Called("set_query_string", IF r.ok THEN "void" ELSE "throw")

\* query_string() of both objects, and get_uri() of u
QueryString ==
    /\ op' = [name |-> "query_string", ret |-> "string", out |-> query_string(u),
              out2 |-> query_string(u2), uri |-> get_uri(u, FALSE, <<>>).out]
    /\ UNCHANGED <<u, u2>>

NextQuery == ParseQuery \/ SetQueryOption \/ SetQueryString \/ QueryString

SpecQuery == InitQuery /\ [][NextQuery]_vars

\* the keys of the map of o, in the order of the map
KeysInOrder(o) == [i \in 1..Len(o.query_strings) |-> o.query_strings[i][1]]

\* the decoded names of the parameters a query string lists, in its order
WrittenNames(text) ==
    IF text = <<>> THEN <<>>
    ELSE [i \in 1..Len(Split(text, "&")) |->
            urldecode(SubSeq(Split(text, "&")[i], 1,
                             FindFrom(Split(text, "&")[i], 1, {"="}) - 1), FALSE).out]

Ascending(names) == \A i, j \in 1..Len(names) : i < j => StrLess(names[i], names[j])

PairsOf(o) == {o.query_strings[i] : i \in 1..Len(o.query_strings)}

\* C9: the query string that query_string and get_uri write lists the keys of
\* the object in ascending order, each of them once, however they were set;
\* two objects with the same name/value pairs write the same query string
C9_QueryStringOrdered ==
    op.name = "query_string" =>
        /\ WrittenNames(op.out) = KeysInOrder(u)
        /\ WrittenNames(op.out2) = KeysInOrder(u2)
        /\ Ascending(WrittenNames(op.out))
        /\ Ascending(WrittenNames(op.out2))
        /\ op.out # <<>> => IsSuffix(<<"?">> \o op.out, op.uri)
        /\ PairsOf(u) = PairsOf(u2) => op.out = op.out2

-----------------------------------------------------------------------------
(* uri::urldecode on texts with '%' that no two hexadecimal digits follow   *)

MaxText == 4        \* bytes of a text given to urldecode

RelaxBytes == {"%", "4", "z", "+"}

InitRelax ==
    /\ u = NewUri
    /\ u2 = NewUri
    /\ \E in \in SeqsUpTo(RelaxBytes, MaxText) :
          op = [name |-> "text", in |-> in, relax |-> FALSE, ok |-> TRUE, out |-> <<>>]

\* out = urldecode(in, true)
UrlDecodeRelaxed ==
    /\ op.name = "text"
    /\ \E r \in {urldecode(op.in, TRUE)} :
        op' = [op EXCEPT !.name = "urldecode", !.relax = TRUE, !.ok = r.ok, !.out = r.out]
    /\ UNCHANGED <<u, u2>>

\* out = urldecode(in, false)
UrlDecodeStrict ==
    /\ op.name = "text"
    /\ \E r \in {urldecode(op.in, FALSE)} :
        op' = [op EXCEPT !.name = "urldecode", !.relax = FALSE, !.ok = r.ok, !.out = r.out]
    /\ UNCHANGED <<u, u2>>

NextRelax == UrlDecodeRelaxed \/ UrlDecodeStrict

SpecRelax == InitRelax /\ [][NextRelax]_vars

\* the text in which '+' is a space, '%' and two hexadecimal digits are the
\* byte they name, every other '%' is a literal '%' after which the next byte
\* is decoded, and every other byte is itself
RECURSIVE PercentLiteral(_)
PercentLiteral(in) ==
    IF in = <<>> THEN <<>>
    ELSE IF Head(in) = "+" THEN <<" ">> \o PercentLiteral(Tail(in))
    ELSE IF Head(in) = "%" /\ HexValue(At(in, 2)) # -1 /\ HexValue(At(in, 3)) # -1 THEN
        <<Chr(HexValue(in[2]) * 16 + HexValue(in[3]))>> \o PercentLiteral(SubSeq(in, 4, Len(in)))
    ELSE <<Head(in)>> \o PercentLiteral(Tail(in))

\* C11: urldecode(in, true) never fails, and every '%' that two hexadecimal
\* digits do not follow is copied as a literal '%', decoding going on with
\* the byte after it
C11_RelaxedKeepsPercent ==
    (op.name = "urldecode" /\ op.relax) => (op.ok /\ op.out = PercentLiteral(op.in))

-----------------------------------------------------------------------------
(* uri::set_option and uri::get_website_uri; the options next to set_uri    *)
(* and the functions that write the URI                                     *)

\* set_option(name, value): the option is erased for an empty value and
\* assigned otherwise
set_option(o, name, value) ==
    IF value = <<>> THEN [o EXCEPT !.options = MapErase(@, name)]
    ELSE [o EXCEPT !.options = MapSet(@, name, value)]

\* get_website_uri(include_port): scheme, "://", full domain, port, '/'
get_website_uri(o, include_port) ==
    o.scheme \o <<":", "/", "/">> \o full_domain(o)
    \o (IF include_port /\ scheme_to_port(o.scheme) # o.port
        THEN <<":">> \o to_string(o.port)
        ELSE <<>>)
    \o Slash

OptionUris ==
    { Uri(HttpScheme, HCom, <<SegA>>, <<>>, <<>>),
      Uri(HttpScheme, <<"w", ".">> \o HCom \o <<":", "8", "1">>, <<SegA>>,
          << <<"b", "=", "1">> >>, <<"#", "x">>),
      Uri(HttpScheme, HX, <<SegA>>, <<>>, <<>>),
      Uri(HttpScheme, HCom, <<SegBadHex>>, <<>>, <<>>),
      Uri(HttpScheme, <<"u", ":", "%", "z", "z", "@">> \o HCom, <<SegA>>, <<>>, <<>>) }

OptionKeys == {<<"a">>, <<"b">>}
OptionTexts == {Empty, <<"1">>, <<"2">>}

\* op.before holds the options of u before the call
InitOptions ==
    /\ u = NewUri
    /\ u2 = NewUri
    /\ op = [name |-> "uri", ret |-> "none", out |-> <<>>, before |-> <<>>]

\* u.set_option(name, value)
SetOption ==
    \E name \in OptionKeys, value \in OptionTexts :
        /\ u' = set_option(u, name, value)
        /\ op' = [name |-> "set_option", ret |-> "void", out |-> <<>>, before |-> u.options]
        /\ UNCHANGED u2

\* u.set_uri(Text(d))
SetUriOptions ==
    \E d \in OptionUris :
        \E r \in {Scan(Text(d), d.accept_path, d.accept_ip)} :
            /\ u' = set_uri(u, r)
            /\ op' = [name |-> "set_uri", ret |-> Returned(r), out |-> <<>>, before |-> u.options]
            /\ UNCHANGED u2

\* u.get_uri(use_hash_bang, redact)
GetUriOptions ==
    \E use_hash_bang \in BOOLEAN, redact \in {Empty, <<"x">>} :
        \E g \in {get_uri(u, use_hash_bang, redact)} :
            /\ op' = [name |-> "get_uri", ret |-> IF g.ok THEN "string" ELSE "throw",
                      out |-> g.out,
                      before |-> u.options]
            /\ UNCHANGED <<u, u2>>

\* u.get_website_uri(include_port)
GetWebsiteUri ==
    \E include_port \in BOOLEAN :
        /\ op' = [name |-> "get_website_uri", ret |-> "string",
                  out |-> get_website_uri(u, include_port), before |-> u.options]
        /\ UNCHANGED <<u, u2>>

NextOptions == SetOption \/ SetUriOptions \/ GetUriOptions \/ GetWebsiteUri

SpecOptions == InitOptions /\ [][NextOptions]_vars

\* C12: get_uri, get_website_uri and a set_uri that does not return true
\* leave every option in place with its value; a set_uri that returns true
\* leaves no option at all
C12_OptionsKeptUnlessParsed ==
    [][/\ (op'.name \in {"get_uri", "get_website_uri"}
             \/ (op'.name = "set_uri" /\ op'.ret # "true")) => u'.options = u.options
       /\ (op'.name = "set_uri" /\ op'.ret = "true") => u'.options = <<>>]_vars

\* set_uri returned true on an object that held two options before the call
C12_Witness ==
    /\ op.name = "set_uri"
    /\ op.ret = "true"
    /\ Len(op.before) = 2
    /\ u.options = <<>>

\* C12 as stated: set_uri, whatever it returns, get_uri and get_website_uri
\* leave the options as they were
C12_OptionsNeverChanged ==
    [][op'.name \in {"set_uri", "get_uri", "get_website_uri"} => u'.options = u.options]_vars

-----------------------------------------------------------------------------
(* uri::set_domain, uri::set_port and uri::address_ranges                   *)

\* set_domain(full_domain_name): [ok |-> TRUE, o |-> object], ok FALSE when
\* invalid_uri is thrown, by set_domain or by urldecode
set_domain_parts(o, pd) ==
    IF pd.status # "true" THEN [ok |-> FALSE, o |-> o]
    ELSE [ok |-> TRUE,
          o |-> [o EXCEPT !.domain = pd.domain_name,
                          !.top_level_domain = pd.tld,
                          !.sub_domains = pd.sub_domain_names,
                          !.address_ranges = <<>>]]

set_domain(o, full_domain_name) == set_domain_parts(o, process_domain(full_domain_name))

\* set_port(int port): ok FALSE when invalid_parameter is thrown
set_port_int(o, port) ==
    IF port < 0 \/ port > 65535 THEN [ok |-> FALSE, o |-> o]
    ELSE [ok |-> TRUE, o |-> [o EXCEPT !.port = port]]

\* the value of the digits of text from position i on, after value
RECURSIVE stol_digits(_, _, _)
stol_digits(text, i, value) ==
    IF i > Len(text) \/ ~IsDigit(text[i]) THEN value
    ELSE stol_digits(text, i + 1, value * 10 + (Ord(text[i]) - 48))

\* std::stol(text): spaces, an optional sign and the digits that follow,
\* whatever comes after them; ok FALSE when there is no digit (std::invalid_argument)
stol_from(text, start) ==
    LET signed == At(text, start) \in {"+", "-"}
        first == IF signed THEN start + 1 ELSE start
    IN  IF ~IsDigit(At(text, first)) THEN [ok |-> FALSE, value |-> 0]
        ELSE [ok |-> TRUE,
              value |-> IF signed /\ text[start] = "-" THEN 0 - stol_digits(text, first, 0)
                        ELSE stol_digits(text, first, 0)]

\* the first position >= i of text that is not a space
RECURSIVE skip_spaces(_, _)
skip_spaces(text, i) == IF At(text, i) = " " THEN skip_spaces(text, i + 1) ELSE i

stol(text) == stol_from(text, skip_spaces(text, 1))

\* set_port(std::string port): p is what std::stol made of the text
set_port_long(o, p) ==
    IF ~p.ok \/ p.value < 0 \/ p.value > 65535 THEN [ok |-> FALSE, o |-> o]
    ELSE [ok |-> TRUE, o |-> [o EXCEPT !.port = p.value, !.address_ranges = <<>>]]

set_port_string(o, port) == set_port_long(o, stol(port))

\* addr_parser::parse(name) with the default port: the addresses of a host
\* name (one per name here), none for an empty name
resolve(name, port) ==
    IF name = <<>> THEN <<>> ELSE << [hostname |-> name, port |-> port] >>

\* address_ranges(): the object, with the list computed if it was empty
address_ranges(o) ==
    IF o.address_ranges = <<>>
    THEN [o EXCEPT !.address_ranges = resolve(full_domain(o), o.port)]
    ELSE o

-----------------------------------------------------------------------------
(* The address ranges of an object whose domain and port are changed        *)

WHCom == <<"w", ".">> \o HCom

AddressUris ==
    { Uri(HttpScheme, HCom, <<SegA>>, <<>>, <<>>),
      Uri(HttpScheme, WHCom \o <<":", "8", "1">>, <<SegA>>, <<>>, <<>>),
      Uri(HttpScheme, HX, <<SegA>>, <<>>, <<>>) }

InitAddress ==
    /\ u = NewUri
    /\ u2 = NewUri
    /\ op = [name |-> "uri", ret |-> "none"]

\* u.set_uri(Text(d))
SetUriAddress ==
    \E d \in AddressUris :
        \E r \in {Scan(Text(d), d.accept_path, d.accept_ip)} :
            /\ u' = set_uri(u, r)
            /\ op' = [name |-> "set_uri", ret |-> Returned(r)]
            /\ UNCHANGED u2

\* u.set_domain(full_domain_name)
SetDomain ==
    \E full_domain_name \in {HCom, WHCom, HX} :
        \E r \in {set_domain(u, full_domain_name)} :
            /\ u' = r.o
            /\ op' = [name |-> "set_domain", ret |-> IF r.ok THEN "void" ELSE "throw"]
            /\ UNCHANGED u2

\* u.set_port(port) with an int
SetPortInt ==
    \E port \in {80, 81, 65536} :
        \E r \in {set_port_int(u, port)} :
            /\ u' = r.o
            /\ op' = [name |-> "set_port_int", ret |-> IF r.ok THEN "void" ELSE "throw"]
            /\ UNCHANGED u2

\* u.set_port(port) with a string
SetPortString ==
    \E port \in {<<"8", "0">>, <<"8", "1">>, <<"x">>} :
        \E r \in {set_port_string(u, port)} :
            /\ u' = r.o
            /\ op' = [name |-> "set_port_string", ret |-> IF r.ok THEN "void" ELSE "throw"]
            /\ UNCHANGED u2

\* u.address_ranges()
AddressRanges ==
    /\ u' = address_ranges(u)
    /\ op' = [name |-> "address_ranges", ret |-> "list"]
    /\ UNCHANGED u2

NextAddress == SetUriAddress \/ SetDomain \/ SetPortInt \/ SetPortString \/ AddressRanges

SpecAddress == InitAddress /\ [][NextAddress]_vars

\* C13: the list address_ranges() returns is the one computed for the full
\* domain and the port the object has at the time of the call
C13_AddressRangesCurrent ==
    op.name = "address_ranges" => u.address_ranges = resolve(full_domain(u), u.port)

-----------------------------------------------------------------------------
(* uri::set_username and uri::set_password; get_uri with a redact text on   *)
(* two objects                                                              *)

set_username(o, username) == [o EXCEPT !.username = username]

set_password(o, password) == [o EXCEPT !.password = password]

RedactUris ==
    { Uri(HttpScheme, <<"u", ":", "p", "@">> \o HCom, <<SegA>>, <<>>, <<>>),
      Uri(HttpScheme, HCom, <<SegA>>, <<>>, <<>>),
      Uri(FooScheme, <<"u", ":", "q", "@", "w", ".">> \o HCom \o <<":", "8", "1">>, <<SegA>>,
          << <<"b", "=", "1">> >>, <<"#", "x">>),
      Uri(HttpScheme, HCom, <<SegA>>, <<>>, <<"#", "!", "/", "a">>) }

Passwords == {Empty, <<"p">>, <<"q", " ">>, <<NUL>>}
Usernames == {Empty, <<"u">>}
RedactTexts == {<<"x">>, <<"*", "*">>}

InitRedact ==
    /\ u = NewUri
    /\ u2 = NewUri
    /\ op = [name |-> "uri", redact |-> <<>>, ok |-> TRUE, out |-> <<>>,
             ok2 |-> TRUE, out2 |-> <<>>]

Did(name) ==
    [name |-> name, redact |-> <<>>, ok |-> TRUE, out |-> <<>>, ok2 |-> TRUE, out2 |-> <<>>]

\* set_uri(Text(d)) on u (w = 1) or on u2 (w = 2)
SetUriRedact ==
    \E w \in {1, 2}, d \in RedactUris :
        \E r \in {Scan(Text(d), d.accept_path, d.accept_ip)} :
            /\ u' = IF w = 1 THEN set_uri(u, r) ELSE u
            /\ u2' = IF w = 2 THEN set_uri(u2, r) ELSE u2
            /\ op' = Did("set_uri")

\* set_username(username) on u or on u2
SetUsername ==
    \E w \in {1, 2}, username \in Usernames :
        /\ u' = IF w = 1 THEN set_username(u, username) ELSE u
        /\ u2' = IF w = 2 THEN set_username(u2, username) ELSE u2
        /\ op' = Did("set_username")

\* set_password(password) on u or on u2
SetPassword ==
    \E w \in {1, 2}, password \in Passwords :
        /\ u' = IF w = 1 THEN set_password(u, password) ELSE u
        /\ u2' = IF w = 2 THEN set_password(u2, password) ELSE u2
        /\ op' = Did("set_password")

\* get_uri(use_hash_bang) of both objects, the redact text left out
GetUriUnredacted ==
    \E use_hash_bang \in BOOLEAN, redact \in RedactTexts :
        \E g \in {get_uri(u, use_hash_bang, <<>>)}, g2 \in {get_uri(u2, use_hash_bang, <<>>)} :
            /\ op' = [name |-> "get_uri", redact |-> redact, ok |-> g.ok, out |-> g.out,
                      ok2 |-> g2.ok, out2 |-> g2.out]
            /\ UNCHANGED <<u, u2>>

\* get_uri(use_hash_bang, redact) of both objects
GetUriRedacted ==
    \E use_hash_bang \in BOOLEAN, redact \in RedactTexts :
        \E g \in {get_uri(u, use_hash_bang, redact)}, g2 \in {get_uri(u2, use_hash_bang, redact)} :
            /\ op' = [name |-> "get_uri", redact |-> redact, ok |-> g.ok, out |-> g.out,
                      ok2 |-> g2.ok, out2 |-> g2.out]
            /\ UNCHANGED <<u, u2>>

NextRedact == SetUriRedact \/ SetUsername \/ SetPassword \/ GetUriRedacted

SpecRedact == InitRedact /\ [][NextRedact]_vars

\* u and u2 have non-empty passwords and are the same but for them
SameButPassword ==
    /\ u.password # <<>>
    /\ u2.password # <<>>
    /\ [u EXCEPT !.password = <<>>] = [u2 EXCEPT !.password = <<>>]

IsPrefix(t, s) == Len(t) <= Len(s) /\ SubSeq(s, 1, Len(t)) = t

\* C14: get_uri with a non-empty redact text returns the same string for two
\* objects that differ only in their non-empty passwords, and that string
\* has the encoded redact text between the ':' after the user name and '@'
C14_RedactHidesPassword ==
    (op.name = "get_uri" /\ SameButPassword) =>
        /\ op.ok = op.ok2
        /\ op.out = op.out2
        /\ (op.ok /\ u.username # <<>>) =>
            IsPrefix(u.scheme \o <<":", "/", "/">> \o urlencode(u.username, <<>>) \o <<":">>
                     \o urlencode(op.redact, <<>>) \o <<"@">>, op.out)

\* two objects with a user name and different passwords have been written
C14_Witness ==
    /\ op.name = "get_uri"
    /\ SameButPassword
    /\ u.password # u2.password
    /\ u.username # <<>>
    /\ op.ok

-----------------------------------------------------------------------------
(* uri::set_anchor; the fragment that get_uri writes                        *)

\* set_anchor(uri_anchor): ok FALSE when invalid_parameter is thrown
set_anchor(o, uri_anchor) ==
    IF InStr(uri_anchor, "#") THEN [ok |-> FALSE, o |-> o]
    ELSE [ok |-> TRUE, o |-> [o EXCEPT !.anchor = uri_anchor]]

FragmentTexts ==
    { <<>>, <<"#", "x">>, <<"#", "%", "2", "3">>, <<"#", "%", "0", "0">>,
      <<"#", "!", "/", "a">>, <<"#", "!", "/", "a", "/", "%", "2", "3">> }

FragmentUris ==
    {Uri(HttpScheme, HCom, <<SegA>>, q, f) :
        q \in {<<>>, << <<"b", "=", "%", "2", "3">> >>}, f \in FragmentTexts}

Anchors == {Empty, <<"x">>, <<"!", "/", "x">>, <<"a", "#", "b">>}

InitFragment ==
    /\ u = NewUri
    /\ u2 = NewUri
    /\ op = [name |-> "uri", hb |-> FALSE, ok |-> TRUE, out |-> <<>>]

\* u.set_uri(Text(d))
SetUriFragment ==
    \E d \in FragmentUris :
        \E r \in {Scan(Text(d), d.accept_path, d.accept_ip)} :
            /\ u' = set_uri(u, r)
            /\ op' = [name |-> "set_uri", hb |-> FALSE, ok |-> r.status = "true", out |-> <<>>]
            /\ UNCHANGED u2

\* u.set_anchor(uri_anchor)
SetAnchor ==
    \E uri_anchor \in Anchors :
        \E r \in {set_anchor(u, uri_anchor)} :
            /\ u' = r.o
            /\ op' = [name |-> "set_anchor", hb |-> FALSE, ok |-> r.ok, out |-> <<>>]
            /\ UNCHANGED u2

\* u.get_uri(use_hash_bang)
GetUriFragment ==
    \E use_hash_bang \in BOOLEAN :
        \E g \in {get_uri(u, use_hash_bang, <<>>)} :
            /\ op' = [name |-> "get_uri", hb |-> use_hash_bang, ok |-> g.ok, out |-> g.out]
            /\ UNCHANGED <<u, u2>>

NextFragment == SetUriFragment \/ SetAnchor \/ GetUriFragment

SpecFragment == InitFragment /\ [][NextFragment]_vars

\* the number of '#' in s
RECURSIVE CountHash(_)
CountHash(s) ==
    IF s = <<>> THEN 0 ELSE (IF Head(s) = "#" THEN 1 ELSE 0) + CountHash(Tail(s))

\* the fragment of o: the anchor, else the hash bang path when asked for
FragmentOf(o, use_hash_bang) ==
    IF o.anchor # <<>> THEN <<"#">> \o urlencode(o.anchor, <<"!", "/", "~">>)
    ELSE IF use_hash_bang /\ o.hash_bang_path # <<>>
    THEN <<"#", "!", "/">> \o encoded_path(o.hash_bang_path)
    ELSE <<>>

\* C15: get_uri(true) throws exclusive_parameters whenever the anchor is not
\* empty; a string that get_uri returns holds at most one '#', and ends with
\* '#' and the encoded anchor, or with "#!/" and the encoded hash bang path
\* (use_hash_bang given, that path not empty, no anchor), or has no '#'
C15_OneFragment ==
    op.name = "get_uri" =>
        /\ (op.hb /\ u.anchor # <<>>) => ~op.ok
        /\ op.ok =>
            /\ CountHash(op.out) = (IF FragmentOf(u, op.hb) = <<>> THEN 0 ELSE 1)
            /\ IsSuffix(FragmentOf(u, op.hb), op.out)

\* get_uri(true) on an object with an anchor and a hash bang path
C15_Witness ==
    /\ op.name = "get_uri"
    /\ op.hb
    /\ u.anchor # <<>>
    /\ u.hash_bang_path # <<>>
    /\ ~op.ok

-----------------------------------------------------------------------------
(* uri::set_scheme; the port of an object and the port that get_uri writes  *)

\* set_scheme(uri_scheme): ok FALSE when invalid_parameter is thrown
set_scheme(o, uri_scheme) ==
    IF uri_scheme = <<>> THEN [ok |-> FALSE, o |-> o]
    ELSE [ok |-> TRUE, o |-> [o EXCEPT !.scheme = uri_scheme]]

Colon == <<":">>
NoPort == <<"n", "o", "n", "e">>

\* what follows the domain in the authority: NoPort for no ':' at all
PortTexts ==
    { NoPort, <<>>, <<"0">>, <<"8", "1">>, <<"0", "8", "0">>, <<"4", "4", "3">>,
      <<"6", "5", "5", "3", "5">>, <<"6", "5", "5", "3", "6">>, <<"9", "9", "9", "9", "9">>,
      <<"4", "2", "9", "4", "9", "6", "7", "3", "7", "7">>,
      <<"8", "x">>, <<"x">>, <<"-", "1">>, <<"+", "8", "1">> }

PortSchemes == {HttpScheme, FooScheme, TimeScheme}

PortInts == {-1, 0, 37, 81, 65535, 65536}

PortStrings ==
    { <<>>, <<"0">>, <<"8", "0">>, <<" ", "8", "1">>, <<"6", "5", "5", "3", "5">>,
      <<"6", "5", "5", "3", "6">>, <<"-", "1">>, <<"x">>, <<"4", "4", "3", "x">> }

SchemeNames == {Empty, S_http, S_https, S_time, <<"f", "o", "o">>}

InitPort ==
    /\ u = NewUri
    /\ u2 = NewUri
    /\ op = [name |-> "uri", ok |-> TRUE, text |-> NoPort, msg |-> NoMsg, out |-> <<>>]

\* u.set_uri(scheme "h.com" [":" port] "/a")
SetUriPort ==
    \E scheme \in PortSchemes, port \in PortTexts :
        \E r \in {Scan(scheme \o HCom \o (IF port = NoPort THEN <<>> ELSE Colon \o port) \o <<"/", "a">>,
                       FALSE, FALSE)} :
            /\ u' = set_uri(u, r)
            /\ op' = [name |-> "set_uri", ok |-> r.status = "true", text |-> port,
                      msg |-> r.msg, out |-> <<>>]
            /\ UNCHANGED u2

\* u.set_port(port) with an int
SetPortIntPort ==
    \E port \in PortInts :
        \E r \in {set_port_int(u, port)} :
            /\ u' = r.o
            /\ op' = [name |-> "set_port_int", ok |-> r.ok, text |-> NoPort, msg |-> NoMsg, out |-> <<>>]
            /\ UNCHANGED u2

\* u.set_port(port) with a string
SetPortStringPort ==
    \E port \in PortStrings :
        \E r \in {set_port_string(u, port)} :
            /\ u' = r.o
            /\ op' = [name |-> "set_port_string", ok |-> r.ok, text |-> port, msg |-> NoMsg, out |-> <<>>]
            /\ UNCHANGED u2

\* u.set_scheme(uri_scheme)
SetScheme ==
    \E uri_scheme \in SchemeNames :
        \E r \in {set_scheme(u, uri_scheme)} :
            /\ u' = r.o
            /\ op' = [name |-> "set_scheme", ok |-> r.ok, text |-> NoPort, msg |-> NoMsg, out |-> <<>>]
            /\ UNCHANGED u2

\* u.get_website_uri(false), which never writes the port
GetWebsiteUriNoPort ==
    /\ op' = [name |-> "get_uri", ok |-> TRUE, text |-> NoPort, msg |-> NoMsg,
              out |-> get_website_uri(u, FALSE)]
    /\ UNCHANGED <<u, u2>>

\* u.get_uri()
GetUriPort ==
    \E g \in {get_uri(u, FALSE, <<>>)} :
        /\ op' = [name |-> "get_uri", ok |-> g.ok, text |-> NoPort, msg |-> NoMsg, out |-> g.out]
        /\ UNCHANGED <<u, u2>>

NextPort == SetUriPort \/ SetPortIntPort \/ SetPortStringPort \/ SetScheme \/ GetUriPort

SpecPort == InitPort /\ [][NextPort]_vars

\* what get_uri writes up to the end of the domain (these objects have no
\* user name)
UpToDomain(o) == o.scheme \o <<":", "/", "/">> \o urlencode(full_domain(o), <<>>)

\* the characters of out from position i on
From(out, i) == SubSeq(out, i, Len(out))

Digits == <<"0", "1", "2", "3", "4", "5", "6", "7", "8", "9">>

\* the decimal digits of a natural number
RECURSIVE Decimal(_)
Decimal(n) == IF n < 10 THEN <<Digits[n + 1]>> ELSE Decimal(n \div 10) \o <<Digits[(n % 10) + 1]>>

\* C16: get_uri writes ':' and the port right after the domain when the port
\* is not scheme_to_port(scheme), and '/' right after the domain when it is;
\* a scheme without a default port always has its port written
C16_PortWrittenWhenNotDefault ==
    (op.name = "get_uri" /\ op.ok) =>
        /\ IsPrefix(UpToDomain(u), op.out)
        /\ IF u.port # scheme_to_port(u.scheme)
           THEN IsPrefix(Colon \o Decimal(u.port) \o Slash, From(op.out, Len(UpToDomain(u)) + 1))
           ELSE At(op.out, Len(UpToDomain(u)) + 1) = "/"
        /\ scheme_to_port(u.scheme) = -1 => At(op.out, Len(UpToDomain(u)) + 1) = ":"

\* get_uri on an object whose scheme has no default port, after set_uri gave
\* it a domain
C16_Witness ==
    /\ op.name = "get_uri"
    /\ op.ok
    /\ scheme_to_port(u.scheme) = -1
    /\ u.domain # <<>>
    /\ InStr(From(op.out, Len(UpToDomain(u)) + 1), ":")

\* the digit that c is
DigitValue(c) == CHOOSE n \in 0..9 : Digits[n + 1] = c

\* the value of a text of digits, 65536 standing for every larger value
RECURSIVE ValueUpTo65536(_, _)
ValueUpTo65536(t, v) ==
    IF t = <<>> THEN v
    ELSE ValueUpTo65536(Tail(t), IF v * 10 + DigitValue(Head(t)) > 65535 THEN 65536
                                 ELSE v * 10 + DigitValue(Head(t)))

AllDigits(t) == \A i \in 1..Len(t) : \E n \in 1..10 : Digits[n] = t[i]

\* a port text that is empty, holds something else than digits, or has a
\* value above 65535
BadPortText(t) == t = <<>> \/ ~AllDigits(t) \/ ValueUpTo65536(t, 0) > 65535

\* C17: the port of the object is always in 0..65535; set_uri returns false
\* for an empty port, for a port with a character that is not a digit and
\* for a port above 65535 whatever its number of digits, and otherwise takes
\* the value of the digits
C17_PortInRange ==
    /\ u.port \in 0..65535
    /\ (op.name = "set_uri" /\ op.text # NoPort) =>
        IF BadPortText(op.text) THEN ~op.ok
        ELSE op.ok /\ u.port = ValueUpTo65536(op.text, 0)
    /\ (op.name = "set_uri" /\ op.text = <<>>) =>
        op.msg = Msg("port cannot be an empty string.", <<>>)

\* set_uri refused a port of ten digits whose value modulo 2^32 is 81
C17_Witness ==
    /\ op.name = "set_uri"
    /\ op.text = <<"4", "2", "9", "4", "9", "6", "7", "3", "7", "7">>
    /\ ~op.ok
    /\ op.msg = Msg("port must be between 0 and 65536.", <<>>)
    /\ u.port # 80

-----------------------------------------------------------------------------
(* uri::is_unix; the authority of set_uri: login, domain and port          *)

\* an is_unix that looks at the top-level domain
is_unix_without_tld(o) == o.top_level_domain = <<>>

is_unix(o) == o.domain = <<>>

At1 == <<"@">>

\* what may come before the domain
Logins ==
    { <<>>, At1, <<":", "@">>, <<"u", ":", "p", "@">>, <<"u", ":", "@">>, <<":", "p", "@">>,
      <<"t", "@">>, <<"u", ":", "%", "4", "0">> \o At1, <<"u", ":", "p", ":", "q", "@">>,
      <<"u", "@", "p", "@">>, <<"u", ":", "p", "@", "@">> }

\* the domain and what may come after it
Hosts ==
    { <<>>, HCom, HCom \o <<":", "8", "1">>, HCom \o <<":">>, HCom \o <<":", "x">>,
      HCom \o <<":", "8", ":", "1">>, <<"h", ".", "x">>, <<"1", ".", "2", ".", "3", ".", "4">> }

\* the logins tried with accept_path
PathLogins == { <<>>, <<"u", ":", "p", "@">> }

\* the hosts that may be given as an IP address
NumericHosts == { <<"h", ".", "x">>, <<"1", ".", "2", ".", "3", ".", "4">> }

\* what follows the authority
Rests == { <<>>, <<"/", "a">> }

InitAuthority ==
    /\ u = NewUri
    /\ u2 = NewUri
    /\ op = [name |-> "uri", ok |-> TRUE, msg |-> NoMsg, auth |-> <<>>, rest |-> <<>>,
             accept_path |-> FALSE, accept_ip |-> FALSE, is_unix |-> TRUE]

\* u.set_uri("http://" login host rest, accept_path, accept_ip), then is_unix()
SetUriAuthority ==
    \E login \in Logins, host \in Hosts, rest \in Rests, accept_path \in BOOLEAN, accept_ip \in BOOLEAN :
        /\ accept_ip => host \in NumericHosts
        /\ rest = <<>> => login = <<>>
        /\ accept_path => login \in PathLogins
        /\ \E r \in {Scan(HttpScheme \o login \o host \o rest, accept_path, accept_ip)} :
               /\ u' = set_uri(u, r)
               /\ op' = [name |-> "set_uri", ok |-> r.status = "true", msg |-> r.msg,
                         auth |-> login \o host, rest |-> rest,
                         accept_path |-> accept_path, accept_ip |-> accept_ip,
                         is_unix |-> is_unix(set_uri(u, r))]
               /\ UNCHANGED u2

NextAuthority == SetUriAuthority

SpecAuthority == InitAuthority /\ [][NextAuthority]_vars

\* the number of c in text
RECURSIVE CountOf(_, _)
CountOf(text, c) ==
    IF text = <<>> THEN 0 ELSE (IF Head(text) = c THEN 1 ELSE 0) + CountOf(Tail(text), c)

\* the first position of c in text, Len(text) + 1 when there is none
FirstOf(text, c) ==
    IF InStr(text, c) THEN CHOOSE i \in 1..Len(text) : text[i] = c /\ ~InStr(SubSeq(text, 1, i - 1), c)
    ELSE Len(text) + 1

Before(text, c) == SubSeq(text, 1, FirstOf(text, c) - 1)
After(text, c) == SubSeq(text, FirstOf(text, c) + 1, Len(text))

\* the login the authority gives: what comes before its '@'
LoginOf(auth) == IF InStr(auth, "@") THEN Before(auth, "@") ELSE <<>>

\* what comes after the '@' of the authority, or all of it
HostOf(auth) == IF InStr(auth, "@") THEN After(auth, "@") ELSE auth

\* the user name and the password the login gives: the text alone is a
\* password
UserOf(auth) == IF InStr(LoginOf(auth), ":") THEN Before(LoginOf(auth), ":") ELSE <<>>
PassOf(auth) == IF InStr(LoginOf(auth), ":") THEN After(LoginOf(auth), ":") ELSE LoginOf(auth)

\* the authority was scanned: it is not skipped as the start of a path
Scanned == ~(op.accept_path /\ op.auth = <<>> /\ op.rest # <<>>)

\* an authority with one '@', at most one ':' on each side of it, and one of
\* user name and password only
OneOfLogin(auth) ==
    /\ CountOf(auth, "@") = 1
    /\ CountOf(LoginOf(auth), ":") <= 1
    /\ CountOf(HostOf(auth), ":") <= 1
    /\ (UserOf(auth) = <<>>) # (PassOf(auth) = <<>>)

\* a domain that set_uri accepts, with a valid port or none
GoodHost(host) ==
    /\ Before(host, ":") \in {HCom}
    /\ InStr(host, ":") => ~BadPortText(After(host, ":"))

LoginMsg == Msg("username and password must both be defined (or define neither).", <<>>)

WellFormed(auth) ==
    /\ CountOf(auth, "@") <= 1
    /\ CountOf(LoginOf(auth), ":") <= 1
    /\ CountOf(HostOf(auth), ":") <= 1
    /\ (UserOf(auth) = <<>>) <=> (PassOf(auth) = <<>>)
    /\ GoodHost(HostOf(auth))

\* C19: set_uri returns false for an authority with more than one '@', more
\* than one ':' before the '@' or more than one ':' after it (or in all of
\* it when there is no '@'); it returns true for a well formed authority,
\* and then the ':' before the '@' separates the user name from the
\* password, the ':' after the '@', or the only ':' when there is no '@',
\* separates the domain from the port, and without '@' the user name and
\* the password are empty
C19_AuthoritySeparators ==
    (op.name = "set_uri" /\ Scanned) =>
        /\ (\/ CountOf(op.auth, "@") > 1
            \/ CountOf(LoginOf(op.auth), ":") > 1
            \/ CountOf(HostOf(op.auth), ":") > 1) => ~op.ok
        /\ WellFormed(op.auth) => op.ok
        /\ op.ok =>
            /\ u.username = urldecode(UserOf(op.auth), FALSE).out
            /\ u.password = urldecode(PassOf(op.auth), FALSE).out
            /\ full_domain(u) = Before(HostOf(op.auth), ":")
            /\ u.port = (IF InStr(HostOf(op.auth), ":")
                         THEN ValueUpTo65536(After(HostOf(op.auth), ":"), 0) ELSE 80)
            /\ ~InStr(op.auth, "@") => (u.username = <<>> /\ u.password = <<>>)

\* set_uri accepted "h.com:81": no login, the port after the only ':'
C19_Witness ==
    /\ op.name = "set_uri"
    /\ op.auth = HCom \o <<":", "8", "1">>
    /\ op.ok
    /\ u.username = <<>>
    /\ u.password = <<>>
    /\ u.port = 81
    /\ full_domain(u) = HCom

\* the character right after "://" is '/'
SlashFirst == op.auth = <<>> /\ op.rest # <<>>

\* C20: after a set_uri that returns true, is_unix() is true (and the
\* domain, the sub-domains and the top-level domain are empty) exactly when
\* accept_path was true and '/' came right after "://"; that text is
\* accepted with accept_path, and without it set_uri returns false with
\* "a domain name is required."
C20_UnixWhenPathAccepted ==
    op.name = "set_uri" =>
        /\ op.ok => (op.is_unix <=> (op.accept_path /\ SlashFirst))
        /\ (op.ok /\ op.is_unix) =>
            (u.domain = <<>> /\ u.sub_domains = <<>> /\ u.top_level_domain = <<>>)
        /\ (SlashFirst /\ op.accept_path) => op.ok
        /\ (SlashFirst /\ ~op.accept_path) =>
            (~op.ok /\ op.msg = Msg("a domain name is required.", <<>>))

\* set_uri("http:///a", true) made a Unix URI
C20_Witness ==
    /\ op.name = "set_uri"
    /\ op.ok
    /\ op.accept_path
    /\ SlashFirst
    /\ op.is_unix
    /\ u.path = << <<"a">> >>

-----------------------------------------------------------------------------
(* set_uri on a domain that process_domain refuses                         *)

\* the hosts tried: kind tells what the text is, canon the address as the
\* address parser writes it
IPHosts ==
    { [text |-> HCom, kind |-> "name", canon |-> <<>>],
      [text |-> <<"a", ".">> \o HCom, kind |-> "name", canon |-> <<>>],
      [text |-> <<"a", ".", ".">> \o HCom, kind |-> "other", canon |-> <<>>],
      [text |-> <<"h", ".", "x">>, kind |-> "other", canon |-> <<>>],
      [text |-> <<"1", ".", "2", ".", "3", ".", "4">>, kind |-> "address",
       canon |-> <<"1", ".", "2", ".", "3", ".", "4">>],
      [text |-> ShortIP, kind |-> "address", canon |-> LongIP],
      [text |-> RangeIP, kind |-> "range", canon |-> <<>>] }

IPPorts == { <<>>, <<":", "8", "1">> }

InitIP ==
    /\ u = NewUri
    /\ u2 = NewUri
    /\ op = [name |-> "uri", ok |-> TRUE, msg |-> NoMsg, host |-> <<>>, kind |-> "",
             canon |-> <<>>, accept_ip |-> FALSE]

\* u.set_uri("http://" host port "/a", false, accept_ip)
SetUriIP ==
    \E host \in IPHosts, port \in IPPorts, accept_ip \in BOOLEAN :
        \E r \in {Scan(HttpScheme \o host.text \o port \o <<"/", "a">>, FALSE, accept_ip)} :
            /\ u' = set_uri(u, r)
            /\ op' = [name |-> "set_uri", ok |-> r.status = "true", msg |-> r.msg,
                      host |-> host.text, kind |-> host.kind, canon |-> host.canon,
                      accept_ip |-> accept_ip]
            /\ UNCHANGED u2

NextIP == SetUriIP

SpecIP == InitIP /\ [][NextIP]_vars

\* C21: for a host that is not a name under a known top-level domain,
\* set_uri without accept_ip returns false with "could not verify domain
\* name"; with accept_ip it returns true exactly when the host is one
\* address and not a range, and then the domain is the canonical text of the
\* address and the sub-domains and the top-level domain are empty
C21_AddressFallback ==
    (op.name = "set_uri" /\ op.kind # "name") =>
        /\ ~op.accept_ip =>
            (~op.ok /\ op.msg = Msg("could not verify domain name \"...\".", op.host))
        /\ op.accept_ip => (op.ok <=> op.kind = "address")
        /\ op.ok =>
            (u.domain = op.canon /\ u.sub_domains = <<>> /\ u.top_level_domain = <<>>)

\* set_uri("http://127.1/a", false, true) stored 127.0.0.1
C21_Witness ==
    /\ op.name = "set_uri"
    /\ op.accept_ip
    /\ op.ok
    /\ op.host = ShortIP
    /\ u.domain = LongIP
    /\ u.sub_domains = <<>>

-----------------------------------------------------------------------------
(* uri::get_last_error_message and uri::clear_last_error_message           *)

get_last_error_message(o) == o.last_error_message

clear_last_error_message(o) == [o EXCEPT !.last_error_message = NoMsg]

\* the texts given to set_uri: three that are accepted, the last of them
\* with a hash bang path that cannot be cleaned, and four that are refused
ErrorTexts ==
    { HttpScheme \o HCom \o <<"/", "a">>,
      HttpScheme \o HCom \o <<"/", "a", "#", "!", "/", "b">>,
      HttpScheme \o HCom \o <<"/", "a", "#", "!", "/", ".", ".">>,
      <<"h", "t", "t", "p", ":", "/">> \o HCom,
      HttpScheme \o HCom \o <<":", "x", "/">>,
      HttpScheme \o <<"/", "a">>,
      HttpScheme \o HCom \o <<"/", ".", ".">> }

InitError ==
    /\ u = NewUri
    /\ u2 = NewUri
    /\ op = [name |-> "uri", ok |-> TRUE, before |-> NoMsg, out |-> NoMsg]

\* u.set_uri(str)
SetUriError ==
    \E str \in ErrorTexts :
        \E r \in {Scan(str, FALSE, FALSE)} :
            /\ u' = set_uri(u, r)
            /\ op' = [name |-> "set_uri", ok |-> r.status = "true",
                      before |-> u.last_error_message, out |-> NoMsg]
            /\ UNCHANGED u2

\* u.clear_last_error_message()
ClearLastErrorMessage ==
    /\ u' = clear_last_error_message(u)
    /\ op' = [name |-> "clear_last_error_message", ok |-> TRUE,
              before |-> u.last_error_message, out |-> NoMsg]
    /\ UNCHANGED u2

\* u.get_last_error_message()
GetLastErrorMessage ==
    /\ op' = [name |-> "get_last_error_message", ok |-> TRUE,
              before |-> u.last_error_message, out |-> get_last_error_message(u)]
    /\ UNCHANGED <<u, u2>>

NextError == SetUriError \/ ClearLastErrorMessage \/ GetLastErrorMessage

SpecError == InitError /\ [][NextError]_vars

\* C22: a set_uri that returns true leaves last_error_message as it was
\* before the call
C22_SuccessKeepsMessage ==
    (op.name = "set_uri" /\ op.ok) => u.last_error_message = op.before

-----------------------------------------------------------------------------
(* The setters that check their argument                                   *)

SetterUris == { HttpScheme \o HCom \o <<"/">>, HttpScheme \o HCom \o <<"/", "a">> }

SetterSchemes == { Empty, S_https }
SetterPorts == { -1, 81, 65536 }
SetterPortStrings == { <<"8", "2">>, <<"6", "5", "5", "3", "6">>, <<"-", "1">> }
SetterPaths ==
    { <<"/", "a">>, <<"b">>, <<".", ".">>, <<"/", ".", ".">>, <<".", ".", "/", "a">>,
      <<"a", "/", ".", ".", "/", ".", ".">>, <<"/", "a", "/", ".", ".", "/", ".", ".">> }
SetterAnchors == { <<"x">>, <<"a", "#", "b">>, <<"#">> }
SetterDomains == { <<"w", ".">> \o HCom, <<"h", ".", "x">>, Empty }

\* the names among SetterDomains that end with a known top-level domain
ClassifiedDomains == { <<"w", ".">> \o HCom }

InitSetters ==
    /\ u = NewUri
    /\ u2 = NewUri
    /\ op = [name |-> "uri", ok |-> TRUE, text |-> <<>>, int |-> 0, before |-> NewUri]

\* what a setter called with text (and int) made of u: r.ok, r.o
Called2(name, r, text, int) ==
    /\ u' = r.o
    /\ op' = [name |-> name, ok |-> r.ok, text |-> text, int |-> int, before |-> u]
    /\ UNCHANGED u2

\* u.set_uri(str)
SetUriSetters ==
    \E str \in SetterUris :
        \E r \in {Scan(str, FALSE, FALSE)} :
            Called2("set_uri", [ok |-> r.status = "true", o |-> set_uri(u, r)], str, 0)

CallSetScheme == \E t \in SetterSchemes : Called2("set_scheme", set_scheme(u, t), t, 0)

CallSetPortInt == \E n \in SetterPorts : Called2("set_port_int", set_port_int(u, n), <<>>, n)

CallSetPortString ==
    \E t \in SetterPortStrings : Called2("set_port_string", set_port_string(u, t), t, 0)

\* u.set_path(uri_path): f_path.swap(p) when nothing was thrown
CallSetPath ==
    \E t \in SetterPaths :
        \E r \in {set_path(u, t)} :
            /\ Len(u.path) < MaxPath
            /\ Called2("set_path", [ok |-> r.ok, o |-> IF r.ok THEN [u EXCEPT !.path = r.path] ELSE u],
                       t, 0)

CallSetAnchor == \E t \in SetterAnchors : Called2("set_anchor", set_anchor(u, t), t, 0)

CallSetDomain == \E t \in SetterDomains : Called2("set_domain", set_domain(u, t), t, 0)

NextSetters ==
    \/ SetUriSetters
    \/ CallSetScheme
    \/ CallSetPortInt
    \/ CallSetPortString
    \/ CallSetPath
    \/ CallSetAnchor
    \/ CallSetDomain

SpecSetters == InitSetters /\ [][NextSetters]_vars

\* the canonical form of a list of segments, computed with a stack: "." is
\* dropped, ".." drops the segment on top of the stack and fails on an empty
\* stack
RECURSIVE StackClean(_, _)
StackClean(segs, stack) ==
    IF segs = <<>> THEN [ok |-> TRUE, path |-> stack]
    ELSE IF Head(segs) = Dot THEN StackClean(Tail(segs), stack)
    ELSE IF Head(segs) = DotDot THEN
        IF stack = <<>> THEN [ok |-> FALSE, path |-> <<>>]
        ELSE StackClean(Tail(segs), SubSeq(stack, 1, Len(stack) - 1))
    ELSE StackClean(Tail(segs), Append(stack, Head(segs)))

\* the segments set_path works on: those of the path of the object come
\* first when the argument does not start with '/'
SegmentsGiven(o, text) ==
    IF At(text, 1) = "/" THEN split_string(text, "/")
    ELSE o.path \o split_string(text, "/")

\* the argument of the last call is one the setter has to refuse
Refusable ==
    \/ op.name = "set_scheme" /\ op.text = <<>>
    \/ op.name = "set_port_int" /\ op.int \notin 0..65535
    \/ op.name = "set_port_string" /\ op.text \in { <<"6", "5", "5", "3", "6">>, <<"-", "1">> }
    \/ op.name = "set_path" /\ ~StackClean(SegmentsGiven(op.before, op.text), <<>>).ok
    \/ op.name = "set_anchor" /\ InStr(op.text, "#")
    \/ op.name = "set_domain" /\ op.text \notin ClassifiedDomains

\* C23: set_scheme with an empty text, set_port with a value outside
\* 0..65535, set_path with a ".." that has no segment before it, set_anchor
\* with a '#' and set_domain with a name that cannot be classified throw
\* and leave the object as it was
C23_RefusedLeavesObject == Refusable => (~op.ok /\ u = op.before)

\* a setter that throws leaves the object as it was
C23_ThrowLeavesObject ==
    (op.name # "uri" /\ op.name # "set_uri" /\ ~op.ok) => u = op.before

-----------------------------------------------------------------------------
(* The scheme of an object                                                 *)

\* how the texts given to set_uri start, and how they go on
SchemeStarts ==
    { HttpScheme, <<"a", ":", "/", "/">>, <<":", "/", "/">>, <<"h", "t", "t", "p", ":", "/">>,
      <<"h", "t", "t", "p", ":">>, <<"h", "t", "t", "p">>, <<"h", "t", "t", "p", "/", "/">>,
      Empty, <<":">>, <<NUL, ":", "/", "/">>, <<"a", ":", "/", "b", "/">> }

SchemeTails ==
    { Empty, HCom, HCom \o <<"/", "a">>, <<"w", ".">> \o HCom \o <<"/">>,
      <<"%", "z", "z", ":", "p", "@">> \o HCom, <<":", "/", "/">> }

SchemeArgs == { Empty, S_ftp, <<"x">> }

InitScheme ==
    /\ u = NewUri
    /\ u2 = NewUri
    /\ op = [name |-> "uri", ok |-> TRUE, text |-> <<>>, msg |-> NoMsg]

\* u.set_uri(start tail)
SetUriScheme ==
    \E start \in SchemeStarts, tail \in SchemeTails :
        \E r \in {Scan(start \o tail, FALSE, FALSE)} :
            /\ u' = set_uri(u, r)
            /\ op' = [name |-> "set_uri", ok |-> r.status = "true", text |-> start \o tail,
                      msg |-> r.msg]
            /\ UNCHANGED u2

\* u.set_scheme(uri_scheme)
SetSchemeScheme ==
    \E uri_scheme \in SchemeArgs :
        \E r \in {set_scheme(u, uri_scheme)} :
            /\ u' = r.o
            /\ op' = [name |-> "set_scheme", ok |-> r.ok, text |-> uri_scheme, msg |-> NoMsg]
            /\ UNCHANGED u2

NextScheme == SetUriScheme \/ SetSchemeScheme

SpecScheme == InitScheme /\ [][NextScheme]_vars

\* text starts with one character or more, none of them ':' or the zero
\* byte, followed by "://"
SchemeGiven(text) ==
    /\ FirstOf(text, ":") > 1
    /\ ~InStr(Before(text, ":"), NUL)
    /\ At(text, FirstOf(text, ":")) = ":"
    /\ At(text, FirstOf(text, ":") + 1) = "/"
    /\ At(text, FirstOf(text, ":") + 2) = "/"

\* C24: the scheme is never empty: it is "http" on a new object, set_uri
\* returns false (with the message about the scheme) unless its text starts
\* with a scheme of one character or more followed by "://", and set_scheme
\* throws on an empty text
C24_SchemeNeverEmpty ==
    /\ u.scheme # <<>>
    /\ op.name = "uri" => u.scheme = S_http
    /\ (op.name = "set_uri" /\ ~SchemeGiven(op.text)) =>
        (~op.ok /\ op.msg = Msg("scheme not followed by \"://\".", <<>>))
    /\ (op.name = "set_uri" /\ op.ok) => u.scheme = Before(op.text, ":")
    /\ (op.name = "set_scheme" /\ op.text = <<>>) => ~op.ok

\* set_uri("://h.com") was refused for its scheme, on an object whose
\* scheme had been changed
C24_Witness ==
    /\ op.name = "set_uri"
    /\ op.text = <<":", "/", "/">> \o HCom
    /\ ~op.ok
    /\ op.msg = Msg("scheme not followed by \"://\".", <<>>)
    /\ u.scheme = S_ftp

-----------------------------------------------------------------------------
(* string_part and weighted_http_string::parse.  A part is its name, its   *)
(* value, its level counted in tenths and the std::map of its parameters;  *)
(* the tab is not among the characters of this model, so that ' ' is the   *)
(* only blank                                                              *)

Space == " "
Comma == <<",">>

\* string_part::DEFAULT_LEVEL(), 1.0
DEFAULT_LEVEL == 10

\* string_part(name)
NewPart(name) == [name |-> name, value |-> <<>>, level |-> DEFAULT_LEVEL, param |-> <<>>]

\* the first position >= i of s whose character is not in set
RECURSIVE skip_while(_, _, _)
skip_while(s, i, set) == IF At(s, i) \in set THEN skip_while(s, i + 1, set) ELSE i

\* text without the spaces at its end
RECURSIVE trim_end(_)
trim_end(text) ==
    IF text # <<>> /\ text[Len(text)] = Space THEN trim_end(SubSeq(text, 1, Len(text) - 1))
    ELSE text

\* snapdev::trim_string(text, true, true): no space at the start nor the end
trim_string(text) == trim_end(SubSeq(text, skip_while(text, 1, {Space}), Len(text)))

\* text with each run of spaces reduced to one space
RECURSIVE trim_inside(_)
trim_inside(text) ==
    IF Len(text) < 2 THEN text
    ELSE IF text[1] = Space /\ text[2] = Space THEN trim_inside(Tail(text))
    ELSE <<Head(text)>> \o trim_inside(Tail(text))

\* snapdev::trim_string(text, true, true, true)
trim_string_inside(text) == trim_inside(trim_string(text))

\* the value of a text of digits
RECURSIVE digits_value(_, _)
digits_value(text, value) ==
    IF text = <<>> THEN value
    ELSE digits_value(Tail(text), value * 10 + (Ord(Head(text)) - 48))

IsNumber(text) == text # <<>> /\ \A i \in 1..Len(text) : IsDigit(text[i])

\* the tenths of a number written as digits with an optional '.' and one
\* more digit: whole is the text before the '.', rest the text from it on
tenths_of(whole, rest) ==
    IF ~IsNumber(whole) THEN [ok |-> FALSE, level |-> 0]
    ELSE IF rest = <<>> THEN [ok |-> TRUE, level |-> digits_value(whole, 0) * 10]
    ELSE IF Len(rest) = 2 /\ IsDigit(rest[2])
    THEN [ok |-> TRUE, level |-> digits_value(whole, 0) * 10 + (Ord(rest[2]) - 48)]
    ELSE [ok |-> FALSE, level |-> 0]

\* the tenths of an unsigned number
unsigned_tenths(text) ==
    tenths_of(SubSeq(text, 1, FindFrom(text, 1, {"."}) - 1),
              SubSeq(text, FindFrom(text, 1, {"."}), Len(text)))

negated(r) == [r EXCEPT !.level = 0 - r.level]

\* advgetopt::validator_double::convert_string(param_value, level), for the
\* numbers with at most one digit after the '.'
convert_string(param_value) ==
    IF At(param_value, 1) = "-" THEN negated(unsigned_tenths(Tail(param_value)))
    ELSE unsigned_tenths(param_value)

MsgName == "part name is empty or too long (limit is 17 characters.)\n"
MsgFloat == "the quality value (q=...) is not a valid floating point.\n"
MsgNegative == "the quality value (q=...) cannot be a negative number.\n"
MsgSpurious == "found a spurious character in a weighted string.\n"
MsgNotEnded == "part not ended by a comma or end of string.\n"

Quotes == {"DQUOTE", "'"}

\* a quoted text that starts at v and whose closing quote, if any, is at e:
\* the text and the position after the quote and the spaces that follow it
quoted_text(s, v, e) ==
    [value |-> SubSeq(s, v, e - 1),
     pos |-> skip_while(s, IF e <= Len(s) THEN e + 1 ELSE e, {Space})]

\* a text that is not quoted, from v to before e
plain_text(s, v, e) == [value |-> trim_string_inside(SubSeq(s, v, e - 1)), pos |-> e]

\* the value that follows '=' and spaces, at position k
value_at(s, k) ==
    IF At(s, k) \in Quotes THEN quoted_text(s, k + 1, FindFrom(s, k + 1, {At(s, k)}))
    ELSE plain_text(s, k, FindFrom(s, k, {";", ","}))

\* the value of a parameter: the quoted text is trimmed at both ends
trimmed_value(pv) == [pv EXCEPT !.value = trim_string(pv.value)]

param_value_at(s, k) ==
    IF At(s, k) \in Quotes THEN trimmed_value(value_at(s, k)) ELSE value_at(s, k)

\* the part once the parameter is added: q sets the level when its value
\* is a number that is not negative
with_parameter(part, param_name, param_value, q) ==
    IF param_name = <<"q">> /\ q.ok /\ q.level >= 0
    THEN [part EXCEPT !.param = MapSet(@, param_name, param_value), !.level = q.level]
    ELSE [part EXCEPT !.param = MapSet(@, param_name, param_value)]

\* the messages once the parameter is added
with_q_error(errs, param_name, q) ==
    IF param_name # <<"q">> THEN errs
    ELSE IF ~q.ok THEN Append(errs, MsgFloat)
    ELSE IF q.level >= 0 THEN errs
    ELSE Append(errs, MsgNegative)

\* the while(*s == ';') loop over the parameters of a part, at position k:
\* the position it stops at, the part and the messages
RECURSIVE parse_params(_, _, _, _)
RECURSIVE param_named(_, _, _, _, _)
RECURSIVE param_valued(_, _, _, _, _)
RECURSIVE after_param(_, _, _, _)

parse_params(s, k, part, errs) ==
    IF At(s, k) # ";" THEN [pos |-> k, part |-> part, errs |-> errs]
    ELSE param_named(s, skip_while(s, k + 1, {";", Space}),
                     FindFrom(s, skip_while(s, k + 1, {";", Space}), {",", ";", "="}),
                     part, errs)

\* the name of the parameter goes from v to before e
param_named(s, v, e, part, errs) ==
    IF trim_string(SubSeq(s, v, e - 1)) = <<>> THEN after_param(s, e, part, errs)
    ELSE IF At(s, e) = "="
    THEN param_valued(s, trim_string(SubSeq(s, v, e - 1)),
                      param_value_at(s, skip_while(s, e + 1, {Space})), part, errs)
    ELSE param_valued(s, trim_string(SubSeq(s, v, e - 1)), [value |-> <<>>, pos |-> e],
                      part, errs)

param_valued(s, param_name, pv, part, errs) ==
    after_param(s, pv.pos,
                with_parameter(part, param_name, pv.value, convert_string(pv.value)),
                with_q_error(errs, param_name, convert_string(pv.value)))

after_param(s, k, part, errs) ==
    IF At(s, k) \notin {NUL, ";", ","}
    THEN parse_params(s, FindFrom(s, k + 1, {",", ";"}), part, Append(errs, MsgSpurious))
    ELSE parse_params(s, k, part, errs)

\* the name of a part is refused
name_refused(name) == name = <<>> \/ Len(name) > 17

\* the for(;;) loop over the parts, at position i: the parts and the messages
RECURSIVE parse_parts(_, _, _, _)
RECURSIVE part_named(_, _, _, _, _)
RECURSIVE part_valued(_, _, _, _, _)
RECURSIVE part_done(_, _, _)

parse_parts(s, i, parts, errs) ==
    IF skip_while(s, i, {Space, ","}) > Len(s) THEN [parts |-> parts, errs |-> errs]
    ELSE part_named(s, skip_while(s, i, {Space, ","}),
                    FindFrom(s, skip_while(s, i, {Space, ","}), {",", ";", "=", Space}),
                    parts, errs)

\* the name of the part goes from v to before e
part_named(s, v, e, parts, errs) ==
    IF name_refused(trim_string_inside(SubSeq(s, v, e - 1)))
    THEN [parts |-> parts, errs |-> Append(errs, MsgName)]
    ELSE part_valued(s, skip_while(s, e, {Space}),
                     NewPart(trim_string_inside(SubSeq(s, v, e - 1))), parts, errs)

\* k is the position after the name and the spaces that follow it
part_valued(s, k, part, parts, errs) ==
    IF At(s, k) = "="
    THEN part_done(s, parse_params(s, value_at(s, skip_while(s, k + 1, {Space})).pos,
                                   [part EXCEPT !.value =
                                        value_at(s, skip_while(s, k + 1, {Space})).value],
                                   errs),
                   parts)
    ELSE part_done(s, parse_params(s, k, part, errs), parts)

\* r is what the loop over the parameters returned
part_done(s, r, parts) ==
    parse_parts(s, r.pos, Append(parts, r.part),
                IF At(s, r.pos) \notin {",", NUL} THEN Append(r.errs, MsgNotEnded) ELSE r.errs)

\* a default-constructed weighted_http_string
NewWeighted == [str |-> <<>>, parts |-> <<>>, error_messages |-> <<>>]

\* the object once f_str (its C string from position pos on) is parsed
parsed(f_str, r) == [str |-> f_str, parts |-> r.parts, error_messages |-> r.errs]

\* a parse that always starts from an empty object
parse_replacing(o, str, reset) == parsed(str, parse_parts(c_str(str, 1), 1, <<>>, <<>>))

\* parse(str, reset): the object after the call; the call returns true when
\* error_messages is empty
parse(o, str, reset) ==
    IF o.str = <<>> \/ reset
    THEN parsed(str, parse_parts(c_str(str, 1), 1, <<>>, <<>>))
    ELSE parsed(o.str \o Comma \o str,
                parse_parts(c_str(o.str \o Comma \o str, Len(o.str) + 2), Len(o.str) + 2,
                            o.parts, <<>>))

\* a comparison that puts the smallest level first
less_ascending(lhs, rhs) == lhs.level < rhs.level

\* string_part::operator <
less(lhs, rhs) == lhs.level > rhs.level

\* where std::stable_sort puts part among sorted: after the parts that are
\* not greater than it
RECURSIVE insert_sorted(_, _)
insert_sorted(sorted, part) ==
    IF sorted = <<>> THEN <<part>>
    ELSE IF less(part, Head(sorted)) THEN <<part>> \o sorted
    ELSE <<Head(sorted)>> \o insert_sorted(Tail(sorted), part)

\* std::stable_sort(f_parts.begin(), f_parts.end())
RECURSIVE stable_sort(_, _)
stable_sort(parts, sorted) ==
    IF parts = <<>> THEN sorted
    ELSE stable_sort(Tail(parts), insert_sorted(sorted, Head(parts)))

sort_by_level(o) == [o EXCEPT !.parts = stable_sort(o.parts, <<>>)]

-----------------------------------------------------------------------------
(* A weighted_http_string that is parsed and sorted; in this specification  *)
(* u holds the weighted_http_string                                         *)

MaxWParts == 2      \* parse is called on an object with fewer parts
MaxWStr == 8        \* parse adds to a stored string that is not longer

W_en == <<"e", "n">>
W_fr8 == <<"f", "r", ";", "q", "=", "0", ".", "8">>
W_it8 == <<"i", "t", ";", "q", "=", "0", ".", "8">>
W_de5 == <<"d", "e", ";", "q", "=", "0", ".", "5">>
W_nine == <<"a", "b", "c", "d", "e", "f", "g", "h", "i">>

WeightedTexts ==
    { Empty, W_en, W_fr8, W_it8 \o Comma \o W_en, W_de5 \o Comma \o W_fr8,
      W_de5 \o Comma \o W_it8 \o Comma \o W_en,
      <<"a", "-", "b", "-", "c">>, W_nine, <<"x", "-">> \o W_nine,
      W_nine \o W_nine, <<"f", "r", ";", "q", "=", "-", "1">>,
      <<"e", "n", ";", "q", "=", "x">> }

InitWeighted ==
    /\ u = NewWeighted
    /\ u2 = NewUri
    /\ op = [name |-> "weighted_http_string", ok |-> TRUE, str |-> <<>>, reset |-> FALSE,
             before |-> NewWeighted]

\* u.parse(str, reset)
ParseWeighted ==
    \E str \in WeightedTexts, reset \in BOOLEAN :
        \E r \in {parse(u, str, reset)} :
            /\ Len(u.parts) < MaxWParts
            /\ reset \/ Len(u.str) <= MaxWStr
            /\ u' = r
            /\ op' = [name |-> "parse", ok |-> r.error_messages = <<>>, str |-> str,
                      reset |-> reset, before |-> u]
            /\ UNCHANGED u2

\* u.sort_by_level()
SortByLevel ==
    /\ u' = sort_by_level(u)
    /\ op' = [name |-> "sort_by_level", ok |-> TRUE, str |-> <<>>, reset |-> FALSE,
              before |-> u]
    /\ UNCHANGED u2

NextWeighted == ParseWeighted \/ SortByLevel

SpecWeighted == InitWeighted /\ [][NextWeighted]_vars

\* the parts of level l, in their order
RECURSIVE OfLevel(_, _)
OfLevel(parts, l) ==
    IF parts = <<>> THEN <<>>
    ELSE IF Head(parts).level = l THEN <<Head(parts)>> \o OfLevel(Tail(parts), l)
    ELSE OfLevel(Tail(parts), l)

Levels == 0..DEFAULT_LEVEL

\* C25: sort_by_level leaves the parts by non-increasing level, the parts
\* of one level in the order they had before, and sorting the result again
\* changes nothing
C25_SortStable ==
    op.name = "sort_by_level" =>
        /\ \A i \in 1..(Len(u.parts) - 1) : u.parts[i].level >= u.parts[i + 1].level
        /\ \A l \in Levels : OfLevel(u.parts, l) = OfLevel(op.before.parts, l)
        /\ Len(u.parts) = Len(op.before.parts)
        /\ sort_by_level(u) = u

\* a sort that moved parts and kept two parts of one level in their order
C25_Witness ==
    /\ op.name = "sort_by_level"
    /\ u.parts # op.before.parts
    /\ \E l \in Levels : Len(OfLevel(u.parts, l)) >= 2 /\ OfLevel(u.parts, l)[1] # OfLevel(u.parts, l)[2]

\* C26: parse(str) without reset on an object whose string is not empty
\* keeps the parts, adds those of str after them and makes the string the
\* old one, a comma and str; with reset the parts and the string are those
\* of str alone
C26_ParseAppends ==
    op.name = "parse" =>
        IF ~op.reset /\ op.before.str # <<>>
        THEN /\ u.parts = op.before.parts \o parse(NewWeighted, op.str, TRUE).parts
             /\ u.str = op.before.str \o Comma \o op.str
        ELSE op.reset =>
             /\ u.parts = parse(NewWeighted, op.str, TRUE).parts
             /\ u.str = op.str

\* a parse that added parts to parts that were there
C26_Witness ==
    /\ op.name = "parse"
    /\ ~op.reset
    /\ op.before.parts # <<>>
    /\ Len(u.parts) > Len(op.before.parts)
    /\ SubSeq(u.parts, 1, Len(op.before.parts)) = op.before.parts

\* the name of a part: what comes before its first ';'
PartName(piece) == SubSeq(piece, 1, FindFrom(piece, 1, {";"}) - 1)

\* a name with more than one '-', or with a tag of more than 8 characters
BadTag(name) ==
    \/ CountOf(name, "-") > 1
    \/ \E i \in 1..Len(Split(name, "-")) : Len(Split(name, "-")[i]) > 8

\* C27: parse returns false and records a message when a part name has a
\* primary tag or a sub-tag of more than 8 characters or more than one '-'
C27_LongTagRefused ==
    (op.name = "parse"
        /\ \E i \in 1..Len(Split(op.str, ",")) : BadTag(PartName(Split(op.str, ",")[i])))
    => (~op.ok /\ u.error_messages # <<>>)

-----------------------------------------------------------------------------
(* The loop of clean_path and of set_path on lists of segments              *)

MaxClean == 5       \* segments of a list given to the loop

CleanSegs == {SegA, <<"b">>, <<"c">>, Dot, DotDot}

InitClean ==
    /\ u = NewUri
    /\ u2 = NewUri
    /\ \E segs \in SeqsUpTo(CleanSegs, MaxClean) :
           op = [name |-> "segments", segs |-> segs, ok |-> TRUE, path |-> segs]

\* clean_path(path_segments)
CleanPath ==
    /\ op.name = "segments"
    /\ op' = [name |-> "clean_path", segs |-> op.segs, ok |-> clean_path(op.segs).ok,
              path |-> clean_path(op.segs).path]
    /\ UNCHANGED <<u, u2>>

\* the loop of set_path over the same segments
SetPathLoop ==
    /\ op.name = "segments"
    /\ op' = [name |-> "set_path", segs |-> op.segs,
              ok |-> set_path_loop(op.segs, 0, Len(op.segs)).ok,
              path |-> set_path_loop(op.segs, 0, Len(op.segs)).path]
    /\ UNCHANGED <<u, u2>>

NextClean == CleanPath \/ SetPathLoop

SpecClean == InitClean /\ [][NextClean]_vars

\* C28: the loop of clean_path and of set_path fails exactly when a ".."
\* has no remaining segment before it, and otherwise leaves the list that
\* dropping each "." and, for each "..", the nearest remaining segment
\* before it gives
C28_StackWise ==
    op.name \in {"clean_path", "set_path"} =>
        /\ op.ok = StackClean(op.segs, <<>>).ok
        /\ op.ok => op.path = StackClean(op.segs, <<>>).path

-----------------------------------------------------------------------------
(* set_uri on URIs with and without a fragment; u2 is what the same call   *)
(* makes of the object when the URI has no fragment                        *)

HashBangFragments ==
    { <<>>, <<"#">>, <<"#", "x">>, <<"#", "a", "!", "b">>, <<"#", "%", "2", "1", "x">>,
      <<"#", "%", "z", "z">>, <<"#", "!">>, <<"#", "!", "/", "a", "/", "b">>,
      <<"#", "!", "a", "/", ".", ".", "/", "b">>, <<"#", "!", "/", ".", ".">>,
      <<"#", "!", "/", ".", "/", ".", ".">>, <<"#", "!", "/", "%", "2", "E", "%", "2", "E">>,
      <<"#", "!", "/", "a", "/", ".", ".", "/", ".", ".">> }

HashBangPaths == { <<Empty>>, <<SegA>>, <<SegA, DotDot>>, <<DotDot>> }

HashBangQueries == { <<>>, << <<"b", "=", "1">> >> }

InitHashBang ==
    /\ u = NewUri
    /\ u2 = NewUri
    /\ op = [name |-> "uri", ok |-> TRUE, ok2 |-> TRUE, frag |-> <<>>]

\* u.set_uri(Text(d)); u2 is the object after set_uri of the same text
\* without d.frag
SetUriHashBang ==
    \E segs \in HashBangPaths, q \in HashBangQueries, f \in HashBangFragments :
        \E r \in {Scan(Text(Uri(HttpScheme, HCom, segs, q, f)), FALSE, FALSE)},
           r2 \in {Scan(Text(Uri(HttpScheme, HCom, segs, q, <<>>)), FALSE, FALSE)} :
            /\ u' = set_uri(u, r)
            /\ u2' = set_uri(u, r2)
            /\ op' = [name |-> "set_uri", ok |-> r.status = "true", ok2 |-> r2.status = "true",
                      frag |-> f]

\* u.clear_last_error_message()
ClearHashBang ==
    /\ u.last_error_message # NoMsg
    /\ u' = clear_last_error_message(u)
    /\ u2' = u2
    /\ op' = [name |-> "clear_last_error_message", ok |-> TRUE, ok2 |-> TRUE, frag |-> <<>>]

NextHashBang == SetUriHashBang \/ ClearHashBang

SpecHashBang == InitHashBang /\ [][NextHashBang]_vars

\* the decoded text after the '#'
Decoded(frag) == urldecode(Tail(frag), FALSE).out

\* C29: after a set_uri that returned true the anchor and the hash bang path
\* are not both filled and the anchor does not start with '!'; a fragment
\* whose decoded text starts with '!' leaves the anchor empty, any other
\* fragment is the anchor, decoded, and the hash bang path is empty
C29_AnchorOrHashBang ==
    (op.name = "set_uri" /\ op.ok) =>
        /\ ~(u.anchor # <<>> /\ u.hash_bang_path # <<>>)
        /\ At(u.anchor, 1) # "!"
        /\ IF op.frag = <<>> THEN u.anchor = <<>> /\ u.hash_bang_path = <<>>
           ELSE IF At(Decoded(op.frag), 1) = "!" THEN u.anchor = <<>>
           ELSE u.anchor = Decoded(op.frag) /\ u.hash_bang_path = <<>>

\* a fragment whose '!' is written "%21" filled the hash bang path
C29_Witness ==
    /\ op.name = "set_uri"
    /\ op.ok
    /\ At(op.frag, 2) = "%"
    /\ At(Decoded(op.frag), 1) = "!"
    /\ u.hash_bang_path # <<>>
    /\ u.anchor = <<>>

\* the segments of the text after "#!", as set_uri splits and decodes them
HashBangGiven(frag) == decode_all(split_string(CStr(Tail(Decoded(frag))), "/")).out

\* the fragment is a hash bang path in which a ".." has no remaining
\* segment before it
HashBangFails(frag) ==
    /\ frag # <<>>
    /\ At(Decoded(frag), 1) = "!"
    /\ ~StackClean(HashBangGiven(frag), <<>>).ok

\* o with its hash bang path, and the text it was set from, taken out
WithoutFragment(o) == [o EXCEPT !.hash_bang_path = <<>>, !.original = <<>>]

\* C30: when the hash bang path of a URI has a ".." with no segment before
\* it and the URI without the fragment is accepted, set_uri returns true,
\* the hash bang path is empty and every other field is what set_uri of the
\* URI without the fragment gives
C30_HashBangTolerated ==
    (op.name = "set_uri" /\ op.ok2 /\ HashBangFails(op.frag)) =>
        /\ op.ok
        /\ u.hash_bang_path = <<>>
        /\ WithoutFragment(u) = WithoutFragment(u2)

\* what holds of such a call: it returns true and every field but the hash
\* bang path and the last error message is that of the URI without the
\* fragment; the path is emptied when clean_path returned false
C30_ParseNotFailed ==
    (op.name = "set_uri" /\ op.ok2 /\ HashBangFails(op.frag)) =>
        /\ op.ok
        /\ ~clean_path(HashBangGiven(op.frag)).ok => u.hash_bang_path = <<>>
        /\ [WithoutFragment(u) EXCEPT !.last_error_message = NoMsg]
               = [WithoutFragment(u2) EXCEPT !.last_error_message = NoMsg]

=============================================================================
